---- MODULE Spec2Model ----
(***************************************************************************)
(* State-machine model of the RPC selection, probing, caching and fallback *)
(* engine of permit2-rpc-manager: CacheManager, RpcSelector, LatencyTester *)
(* (as seen by the selector), Permit2RpcManager.send and the HTTP handler  *)
(* that calls it for single and batched requests.                          *)
(*                                                                         *)
(* The program is asynchronous JavaScript on one thread: the code between  *)
(* two awaits runs atomically, and every await is a point where any other  *)
(* caller's continuation may run.  Each action below is one such segment.  *)
(* An await that touches no shared state is merged into its neighbour.     *)
(***************************************************************************)
EXTENDS Integers, Sequences, FiniteSets, TLC

\* ---------------------------------------------------------------- bounds
NumCallers == 2          \* concurrently running callers
MaxCalls == 3            \* calls started in one behaviour
MaxLatency == 1          \* measured latencies are 0..MaxLatency
MaxSeqCalls == 3         \* calls of the sequential runs

Callers == 1..NumCallers

\* ------------------------------------------------------- data of the code
\* latency: Infinity of the failed probes; above every measured latency
Infinity == MaxLatency + 1

ACCEPTABLE_STATUSES == <<"ok", "wrong_bytecode", "syncing">>

LatencyTestStatus ==
  {"ok", "syncing", "wrong_bytecode", "timeout", "http_error", "rpc_error",
   "network_error"}

\* rpc-whitelist data handed to ChainlistDataSource (already filtered)
\* (the filter keeps a url that is listed twice)
WhitelistData ==
  << [chainId |-> 1, rpcUrls |-> <<"A", "B", "A">>],
     [chainId |-> 2, rpcUrls |-> <<"C">>],
     [chainId |-> 3, rpcUrls |-> <<>>] >>

\* chain ids the callers ask for
ChainIds == {1, 2}

\* every chain id of the model: 3 has a whitelist entry without urls, 4 has
\* no whitelist entry
AllChainIds == ChainIds \cup {3, 4}

\* An optional value (T | null) is <<>> for null and <<v>> for v.
Null == <<>>
Some(v) == <<v>>
IsNull(o) == o = <<>>
Val(o) == o[1]

\* ------------------------------------------------------------- sequences
Range(s) == {s[i] : i \in 1..Len(s)}

\* Array.prototype.includes
Includes(s, x) == \E i \in 1..Len(s) : s[i] = x

\* Array.prototype.indexOf, 0-based, -1 when absent
IndexOf(s, x) ==
  IF Includes(s, x) THEN (CHOOSE i \in 1..Len(s) :
                            s[i] = x /\ \A j \in 1..(i - 1) : s[j] # x) - 1
  ELSE -1

\* ------------------------------------------------- ChainlistDataSource
\* a data source with a default url for every chain
getRpcUrlsOrDefault(chainId) == <<"A">>

\* whitelistData.find(c => c.chainId === chainId)?.rpcUrls, [] for none
getRpcUrlsFrom(whitelistData, chainId) ==
  IF \E i \in 1..Len(whitelistData) : whitelistData[i].chainId = chainId
  THEN whitelistData[CHOOSE i \in 1..Len(whitelistData) :
                       /\ whitelistData[i].chainId = chainId
                       /\ \A j \in 1..(i - 1) : whitelistData[j].chainId # chainId].rpcUrls
  ELSE <<>>

\* getRpcUrls: the first whitelist entry of the chain, [] when there is none
getRpcUrls(chainId) == getRpcUrlsFrom(WhitelistData, chainId)

\* ------------------------------------------------------------ latency map
\* A Record<string, LatencyTestResult> is the sequence of its values in
\* insertion order (the order Object.values and for..in give), one per url.
MapHas(m, url) == \E i \in 1..Len(m) : m[i].url = url
MapGet(m, url) == m[CHOOSE i \in 1..Len(m) : m[i].url = url]

\* a map that kept one entry per assignment, not per key
MapAppend(m, r) == Append(m, r)

\* resultMap[url] = r: a new key goes last, an old key keeps its place
MapSet(m, r) ==
  IF MapHas(m, r.url)
  THEN [i \in 1..Len(m) |-> IF m[i].url = r.url THEN r ELSE m[i]]
  ELSE Append(m, r)

\* ------------------------------------------------------------ RpcSelector
\* a comparator of latency alone
CompareLatency(a, b) == a.latency - b.latency

\* the comparator of _rankResults: status priority, then latency
CompareResults(a, b) ==
  LET statusA == IndexOf(ACCEPTABLE_STATUSES, a.status)
      statusB == IndexOf(ACCEPTABLE_STATUSES, b.status)
  IN IF statusA # statusB THEN statusA - statusB ELSE a.latency - b.latency

\* insert r into the sorted s after every element that is not greater:
\* one step of a stable sort
RECURSIVE InsertSorted(_, _)
InsertSorted(s, r) ==
  IF s = <<>> THEN <<r>>
  ELSE IF CompareResults(Head(s), r) <= 0
       THEN <<Head(s)>> \o InsertSorted(Tail(s), r)
       ELSE <<r>> \o s

\* Array.prototype.sort with CompareResults (stable since ES2019)
RECURSIVE SortResults(_)
SortResults(s) ==
  IF s = <<>> THEN <<>>
  ELSE InsertSorted(SortResults(SubSeq(s, 1, Len(s) - 1)), s[Len(s)])

\* a filter that let every status through
AcceptAll(result) == TRUE

IsAcceptable(result) == Includes(ACCEPTABLE_STATUSES, result.status)

\* Object.values(latencyMap).filter(...): the acceptable results, in order
RECURSIVE FilterAcceptable(_)
FilterAcceptable(s) ==
  IF s = <<>> THEN <<>>
  ELSE IF IsAcceptable(Head(s)) THEN <<Head(s)>> \o FilterAcceptable(Tail(s))
       ELSE FilterAcceptable(Tail(s))

\* _rankResults: the urls of the acceptable results, best first
rankResults(latencyMap) ==
  IF IsNull(latencyMap) THEN <<>>
  ELSE LET validResults == FilterAcceptable(Val(latencyMap))
           sorted == SortResults(validResults)
       IN [i \in 1..Len(sorted) |-> sorted[i].url]

\* an inner loop that compared with <=: the last result of the status with
\* the lowest latency
RECURSIVE FastestForStatusLast(_, _, _)
FastestForStatusLast(m, status, best) ==
  IF m = <<>> THEN best
  ELSE LET result == Head(m)
           next == IF result.status = status
                      /\ (IsNull(best) \/ result.latency <= Val(best).latency)
                   THEN Some(result) ELSE best
       IN FastestForStatusLast(Tail(m), status, next)

\* the inner loop of _findFastestInMap: the first result of the status with
\* the strictly lowest latency
RECURSIVE FastestForStatus(_, _, _)
FastestForStatus(m, status, best) ==
  IF m = <<>> THEN best
  ELSE LET result == Head(m)
           next == IF result.status = status
                      /\ (IsNull(best) \/ result.latency < Val(best).latency)
                   THEN Some(result) ELSE best
       IN FastestForStatus(Tail(m), status, next)

\* _findFastestInMap: the fastest result of the best status present
RECURSIVE FindFastestFrom(_, _)
FindFastestFrom(m, k) ==
  IF k > Len(ACCEPTABLE_STATUSES) THEN Null
  ELSE LET fastestForStatus == FastestForStatus(m, ACCEPTABLE_STATUSES[k], Null)
       IN IF ~IsNull(fastestForStatus) THEN fastestForStatus
          ELSE FindFastestFrom(m, k + 1)

findFastestInMap(latencyMap) ==
  IF IsNull(latencyMap) THEN Null ELSE FindFastestFrom(Val(latencyMap), 1)

\* ---------------------------------------------------------- LatencyTester
\* What testSingleRpc can return for a url: the measured latency with an
\* acceptable status, Infinity with a failure.
AllProbeOutcomes ==
  {[status |-> st, latency |-> l] :
     st \in Range(ACCEPTABLE_STATUSES), l \in 0..MaxLatency}
    \cup {[status |-> st, latency |-> Infinity] :
            st \in LatencyTestStatus \ Range(ACCEPTABLE_STATUSES)}

\* ----------------------------------------------------------- LatencyTester
\* this.timeoutMs, on the scale of the measured latencies
TimeoutMs == MaxLatency

\* How one _makeRpcCall of testSingleRpc ends, and when (ms after startTime):
\*   "abort"    fetch rejects with AbortError when the timer fires
\*   "network"  fetch, or response.json(), rejects with another error
\*   "http"     !response.ok: Error("HTTP error ...") is thrown
\*   "json"     the parsed body is returned; body says what it holds
RpcCallOutcomes(bodies) ==
  {[kind |-> "abort", at |-> TimeoutMs, body |-> "none"]}
    \cup {[kind |-> k, at |-> t, body |-> "none"] :
            k \in {"network", "http"}, t \in 0..TimeoutMs}
    \cup {[kind |-> "json", at |-> t, body |-> b] :
            b \in bodies, t \in 0..TimeoutMs}

\* eth_getCode: an error object, the Permit2 bytecode, other code, or a
\* result that is no string
GetCodeOutcomes == RpcCallOutcomes({"error", "permit2", "other_code", "no_string"})

\* eth_syncing: an error object, result false, or any other result
SyncingOutcomes == RpcCallOutcomes({"error", "false", "not_false"})

\* the status of the catch block of testSingleRpc for a rejected call
CatchStatus(c) ==
  IF c.kind = "abort" THEN "timeout"
  ELSE IF c.kind = "http" THEN "http_error"
  ELSE "network_error"

\* Promise.all rejects with the rejection that comes first; first says
\* which of the two completions is delivered first when both come in the
\* same millisecond
FirstRejection(getCode, syncing, first) ==
  IF getCode.kind = "json" THEN syncing
  ELSE IF syncing.kind = "json" THEN getCode
  ELSE IF getCode.at < syncing.at THEN getCode
  ELSE IF syncing.at < getCode.at THEN syncing
  ELSE IF first = 1 THEN getCode ELSE syncing

\* const latency = Date.now() - startTime, after both calls have resolved
MeasuredLatency(getCode, syncing) ==
  IF getCode.at > syncing.at THEN getCode.at ELSE syncing.at

\* a tester that looked at the bytecode before the sync status
testSingleRpcBytecodeFirst(getCode, syncing, first) ==
  IF getCode.kind # "json" \/ syncing.kind # "json"
  THEN [status |-> CatchStatus(FirstRejection(getCode, syncing, first)),
        latency |-> Infinity]
  ELSE IF getCode.body = "error" \/ syncing.body = "error"
  THEN [status |-> "rpc_error", latency |-> Infinity]
  ELSE IF getCode.body # "permit2"
  THEN [status |-> "wrong_bytecode", latency |-> MeasuredLatency(getCode, syncing)]
  ELSE IF syncing.body # "false"
  THEN [status |-> "syncing", latency |-> MeasuredLatency(getCode, syncing)]
  ELSE [status |-> "ok", latency |-> MeasuredLatency(getCode, syncing)]

\* testSingleRpc: status and latency of the result for one url
testSingleRpc(getCode, syncing, first) ==
  IF getCode.kind # "json" \/ syncing.kind # "json"
  THEN [status |-> CatchStatus(FirstRejection(getCode, syncing, first)),
        latency |-> Infinity]
  ELSE IF getCode.body = "error" \/ syncing.body = "error"
  THEN [status |-> "rpc_error", latency |-> Infinity]
  ELSE IF syncing.body # "false"
  THEN [status |-> "syncing", latency |-> MeasuredLatency(getCode, syncing)]
  ELSE IF getCode.body # "permit2"
  THEN [status |-> "wrong_bytecode", latency |-> MeasuredLatency(getCode, syncing)]
  ELSE [status |-> "ok", latency |-> MeasuredLatency(getCode, syncing)]

\* a rejected entry that kept the time measured so far
RejectedWithLatency == [status |-> "network_error", latency |-> 0]

\* testRpcUrls: the result it makes up for a testSingleRpc that rejected
RejectedResult == [status |-> "network_error", latency |-> Infinity]

\* the outcomes the probes of the model runs draw from
ProbeOutcomes ==
  {o \in AllProbeOutcomes : o.status \in {"ok", "timeout"}}

\* testRpcUrls: resultMap[url] = result for the urls in order;
\* forEach runs over the indices in increasing order
RECURSIVE ResultMapUpTo(_, _, _)
ResultMapUpTo(urls, results, k) ==
  IF k = 0 THEN <<>>
  ELSE MapSet(ResultMapUpTo(urls, results, k - 1),
              [url |-> urls[k], latency |-> results[k].latency,
               status |-> results[k].status])

testRpcUrlsResult(urls, results) == ResultMapUpTo(urls, results, Len(urls))

\* ------------------------------------------------------ Permit2RpcManager
\* What an upstream can answer to one call of executeRpcCall.
Responses ==
  {"result", "null_result", "no_result", "rpc_error", "http_error",
   "abort", "network"}

\* the answers the sends of the model runs draw from
SendResponses == {"result", "rpc_error", "http_error"}

\* an executeRpcCall that took a falsy result for a failure
executeRpcCallTruthyOnly(response) ==
  CASE response = "result" -> [ok |-> TRUE, value |-> "0x64"]
    [] response = "abort" -> [ok |-> FALSE, value |-> "Request timed out"]
    [] response = "network" -> [ok |-> FALSE, value |-> "fetch failed"]
    [] response = "http_error" -> [ok |-> FALSE, value |-> "HTTP error"]
    [] response = "rpc_error" -> [ok |-> FALSE, value |-> "RPC error"]
    [] OTHER -> [ok |-> FALSE, value |-> "no result"]

\* executeRpcCall: the value returned, or the message of the error thrown
executeRpcCall(response) ==
  CASE response = "abort" -> [ok |-> FALSE, value |-> "Request timed out"]
    [] response = "network" -> [ok |-> FALSE, value |-> "fetch failed"]
    [] response = "http_error" -> [ok |-> FALSE, value |-> "HTTP error"]
    [] response = "rpc_error" -> [ok |-> FALSE, value |-> "RPC error"]
    [] response = "no_result" -> [ok |-> TRUE, value |-> "undefined"]
    [] response = "null_result" -> [ok |-> TRUE, value |-> "null"]
    [] OTHER -> [ok |-> TRUE, value |-> "0x64"]

\* ------------------------------------------------------------------ state
VARIABLES
  cache,        \* CacheManager.cache: chainId -> ChainCache | null
  cacheLoaded,  \* CacheManager.cacheLoaded
  disabled,     \* CacheManager.disabled
  kvStore,      \* the value under [cacheKey] in Deno KV, null when unset
  now,          \* Date.now()
  singleRpc,    \* the last run of testSingleRpc: its inputs and its result
  probeRun,     \* the run of testRpcUrls: its urls, how the testSingleRpc of
                \* each has ended so far, and the map it returned
  kvErrors,     \* history: per caller, the KV operations of its call that failed
  ongoing,      \* ongoingLatencyTests: chainId -> index in probes, 0 if none
  probes,       \* the promises testRpcUrls returned, in call order
  rpcIndexMap,  \* Permit2RpcManager.rpcIndexMap (0 when unset)
  pc,           \* per caller: where its call stands
  call,         \* per caller: chainId of the running call (0: none)
  snap,         \* per caller: result.value of its kv.get
  latencyMap,   \* per caller: local of getRankedRpcList
  fastest,      \* per caller: fastestCachedRpc
  testPromise,  \* per caller: the promise it awaits (index in probes)
  rankedList,   \* per caller: rankedRpcList
  startIndex,   \* per caller: startIndex of send
  loopI,        \* per caller: i of the attempt loop
  lastError,    \* per caller: lastError of send ("" for null)
  attempts,     \* per caller: the upstream calls made by the running send
  outcome,      \* per caller: what the call returned or threw
  rrLog,        \* history: per chain, the round-robin reads of the sends
  started,      \* history: number of calls started
  http,         \* the handler of the HTTP front-end: its request and response
  reads,        \* history: per caller, the cache entries that the two reads
                \* of its validity check saw
  draining      \* the microtask queue is being drained

vars ==
  <<cache, cacheLoaded, disabled, kvStore, now, singleRpc, probeRun, kvErrors,
    ongoing, probes, rpcIndexMap,
    pc, call, snap, latencyMap, fastest, testPromise, rankedList, startIndex,
    loopI, lastError, attempts, outcome, rrLog, started, http, reads,
    draining>>

cacheVars == <<cache, cacheLoaded, disabled, kvStore>>
sendVars == <<rpcIndexMap, startIndex, loopI, lastError, attempts, rrLog>>

NoCall == [chainId |-> 0, burst |-> FALSE]
NoOutcome == [type |-> "none", value |-> ""]
NoSingleRpc == [kind |-> "none"]
NoProbeRun == [state |-> "idle", urls |-> <<>>, tasks |-> <<>>, map |-> <<>>]
NoRequest == [state |-> "idle"]
NoReads == [latencyMap |-> Null, fastestRpc |-> Null]
EmptyRoot == [c \in AllChainIds |-> Null]

Init ==
  /\ cache = EmptyRoot
  /\ cacheLoaded = FALSE
  /\ disabled = FALSE
  /\ kvStore = Null
  /\ now = 0
  /\ singleRpc = NoSingleRpc
  /\ probeRun = NoProbeRun
  /\ kvErrors = [p \in Callers |-> {}]
  /\ ongoing = [c \in AllChainIds |-> 0]
  /\ probes = <<>>
  /\ rpcIndexMap = [c \in AllChainIds |-> 0]
  /\ pc = [p \in Callers |-> "idle"]
  /\ call = [p \in Callers |-> NoCall]
  /\ snap = [p \in Callers |-> Null]
  /\ latencyMap = [p \in Callers |-> Null]
  /\ fastest = [p \in Callers |-> Null]
  /\ testPromise = [p \in Callers |-> 0]
  /\ rankedList = [p \in Callers |-> <<>>]
  /\ startIndex = [p \in Callers |-> 0]
  /\ loopI = [p \in Callers |-> 0]
  /\ lastError = [p \in Callers |-> ""]
  /\ attempts = [p \in Callers |-> <<>>]
  /\ outcome = [p \in Callers |-> NoOutcome]
  /\ rrLog = [c \in AllChainIds |-> <<>>]
  /\ started = 0
  /\ http = NoRequest
  /\ reads = [p \in Callers |-> NoReads]
  /\ draining = FALSE

\* ---------------------------------------------------------------- helpers
ChainOf(p) == call[p].chainId

\* this.cache[chainId] ?? null
CacheEntry(chainId) == cache[chainId]

\* A chain is cold while no probe of it has completed: the cache and the
\* KV hold no entry of it and no call for it has returned yet.
IsCold(chainId) ==
  \A j \in 1..Len(probes) : probes[j].chainId = chainId => ~probes[j].settled

\* a CacheManager that took disableCache for false
NeverDisabled == FALSE

\* this.disabled, as the methods of CacheManager read it
IsDisabled == disabled

\* a loadCache that looked at cacheLoaded only
LoadCacheUnlessLoaded == ~cacheLoaded

\* loadCache up to its first await: nothing to do, or the KV is read
LoadCacheNeeded == ~(IsDisabled \/ cacheLoaded)

\* ------------------------------------------------------------- scheduling
\* A continuation that waits for no I/O is a microtask: the caller has it
\* queued when its await was on a promise that is settled already.
MicrotaskReady(p) ==
  \/ pc[p] \in {"getLatencyMap", "getFastestRpc", "check", "update", "kvSet",
                "ranked", "done"}
  \/ pc[p] \in {"awaitShared", "awaitOwn"} /\ probes[testPromise[p]].settled
  \/ pc[p] = "finally" /\ (IsDisabled \/ probes[testPromise[p]].failed)

\* Promise.all(promises) of the batch branch is fulfilled: every item has
\* its response object
BatchReady ==
  /\ http.state = "pending"
  /\ http.body.batch
  /\ \A i \in 1..Len(http.responses) : ~IsNull(http.responses[i])

MicrotaskPending == BatchReady \/ \E p \in Callers : MicrotaskReady(p)

\* The event loop delivers events (a request, an I/O completion) one or
\* several at a time and then runs the queued continuations until none is
\* left; no event is delivered in between.
EventStep == ~draining /\ UNCHANGED draining
MicrotaskStep == draining' = MicrotaskPending'
\* the KV store itself works off the thread, at any time
StoreStep == UNCHANGED draining

\* ---------------------------------------------------------------- actions
\* A caller calls send(chainId, ...): getRankedRpcList -> getLatencyMap ->
\* getRawChainCache -> loadCache, up to the first await.  (Idle callers are
\* alike: the one with the lowest number takes the call.)
StartCall(p, chainId, maxCalls) ==
  /\ pc[p] = "idle"
  /\ \A q \in Callers : q < p => pc[q] # "idle"
  /\ started < maxCalls
  /\ started' = started + 1
  /\ call' = [call EXCEPT ![p] = [chainId |-> chainId, burst |-> IsCold(chainId)]]
  /\ pc' = [pc EXCEPT ![p] = IF LoadCacheNeeded THEN "kvGet" ELSE "getLatencyMap"]
  /\ kvErrors' = [kvErrors EXCEPT ![p] = {}]
  /\ UNCHANGED <<cacheVars, now, singleRpc, probeRun, http, reads, ongoing, probes, sendVars, snap, latencyMap,
                 fastest, testPromise, rankedList, outcome>>
  /\ EventStep

\* loadCache: the KV answers kv.get([cacheKey]) with the value it holds
KvGet(p) ==
  /\ pc[p] = "kvGet"
  /\ snap' = [snap EXCEPT ![p] = kvStore]
  /\ pc' = [pc EXCEPT ![p] = "loaded"]
  /\ UNCHANGED <<cacheVars, now, singleRpc, probeRun, kvErrors, http, reads, ongoing, probes, sendVars, call, latencyMap,
                 fastest, testPromise, rankedList, outcome, started>>
  /\ StoreStep

\* loadCache: Deno.openKv or kv.get rejects; the catch block sets
\* this.cache = {}, and cacheLoaded = true follows
KvGetFailed(p) ==
  /\ pc[p] = "kvGet"
  /\ cache' = EmptyRoot
  /\ cacheLoaded' = TRUE
  /\ kvErrors' = [kvErrors EXCEPT ![p] = @ \cup {"get"}]
  /\ pc' = [pc EXCEPT ![p] = "getLatencyMap"]
  /\ UNCHANGED <<disabled, kvStore, now, singleRpc, probeRun, http, reads, ongoing, probes,
                 sendVars, call, snap, latencyMap, fastest, testPromise,
                 rankedList, outcome, started>>
  /\ EventStep

\* loadCache after kv.get: this.cache = result.value, or {} when null
LoadCacheDone(p) ==
  /\ pc[p] = "loaded"
  /\ cache' = IF ~IsNull(snap[p]) THEN Val(snap[p]) ELSE EmptyRoot
  /\ cacheLoaded' = TRUE
  /\ snap' = [snap EXCEPT ![p] = Null]
  /\ pc' = [pc EXCEPT ![p] = "getLatencyMap"]
  /\ UNCHANGED <<disabled, kvStore, now, singleRpc, probeRun, kvErrors, http, reads, ongoing, probes, sendVars, call,
                 latencyMap, fastest, testPromise, rankedList, outcome, started>>
  /\ EventStep

\* getLatencyMap after loadCache: this.cache[chainId]?.latencyMap ?? null;
\* then getFastestRpc -> getChainCache up to its first await (its loadCache
\* returns at once: this caller's first loadCache has set cacheLoaded)
GetLatencyMap(p) ==
  /\ pc[p] = "getLatencyMap"
  /\ latencyMap' = [latencyMap EXCEPT ![p] =
       IF IsNull(CacheEntry(ChainOf(p))) THEN Null
       ELSE Some(Val(CacheEntry(ChainOf(p))).latencyMap)]
  /\ pc' = [pc EXCEPT ![p] = IF IsDisabled THEN "check" ELSE "getFastestRpc"]
  /\ fastest' = [fastest EXCEPT ![p] = Null]
  /\ reads' = [reads EXCEPT ![p] =
                 [latencyMap |-> CacheEntry(ChainOf(p)), fastestRpc |-> Null]]
  /\ UNCHANGED <<cacheVars, now, singleRpc, probeRun, kvErrors, http, ongoing, probes, sendVars, call, snap,
                 testPromise, rankedList, outcome, started>>
  /\ MicrotaskStep

CacheTtlMs == 2

\* a cache that kept an entry for one tick more: up to an age of cacheTtlMs
IsFreshInclusive(entry) == now - entry.lastTested <= CacheTtlMs

\* getChainCache: the entry when Date.now() - lastTested < cacheTtlMs
IsFresh(entry) == now - entry.lastTested < CacheTtlMs

\* getFastestRpc after loadCache: chainCache?.fastestRpc ?? null
GetFastestRpc(p) ==
  /\ pc[p] = "getFastestRpc"
  /\ fastest' = [fastest EXCEPT ![p] =
       LET chainCache == CacheEntry(ChainOf(p))
       IN IF ~IsNull(chainCache) /\ IsFresh(Val(chainCache))
          THEN Val(chainCache).fastestRpc ELSE Null]
  /\ pc' = [pc EXCEPT ![p] = "check"]
  /\ reads' = [reads EXCEPT ![p].fastestRpc = CacheEntry(ChainOf(p))]
  /\ UNCHANGED <<cacheVars, now, singleRpc, probeRun, kvErrors, http, ongoing, probes, sendVars, call, snap,
                 latencyMap, testPromise, rankedList, outcome, started>>
  /\ MicrotaskStep

\* a selector that asked for a cached fastest url, whatever its status
CacheValidWithoutStatus(lm, fc) == ~IsNull(lm) /\ ~IsNull(fc)

\* a selector that trusted no cached map
CacheNeverValid(lm, fc) == FALSE

\* the condition of getRankedRpcList for using the cached map
CacheValid(lm, fc) ==
  /\ ~IsNull(lm)
  /\ ~IsNull(fc)
  /\ MapHas(Val(lm), Val(fc))
  /\ IsAcceptable(MapGet(Val(lm), Val(fc)))

\* the promise of testRpcUrls, with the history of what was done with it:
\* the callers it served and the calls of updateChainCache that stored it
NewProbe(chainId, rpcUrls, burst) ==
  [chainId |-> chainId, urls |-> rpcUrls, settled |-> FALSE, failed |-> FALSE,
   result |-> <<>>, burst |-> burst, served |-> {}, writes |-> 0]

\* a selector that never looked at ongoingLatencyTests
NoTestInProgress(chainId) == FALSE

\* ongoingLatencyTests.get(chainId): is a test to be awaited?
TestInProgress(chainId) == ongoing[chainId] # 0

\* getRankedRpcList from the validity check to its next await: use the
\* cache, join the test in progress, return [] for no urls, or start a test
\* and register it; rpcUrls is what this.dataSource.getRpcUrls(chainId) gives
CheckCacheWith(p, rpcUrls) ==
  /\ pc[p] = "check"
  /\ LET c == ChainOf(p)
     IN IF CacheValid(latencyMap[p], fastest[p])
        THEN /\ rankedList' = [rankedList EXCEPT ![p] = rankResults(latencyMap[p])]
             /\ pc' = [pc EXCEPT ![p] = "ranked"]
             /\ UNCHANGED <<ongoing, probes, testPromise>>
        ELSE IF TestInProgress(c)
        THEN /\ testPromise' = [testPromise EXCEPT ![p] = ongoing[c]]
             /\ pc' = [pc EXCEPT ![p] = "awaitShared"]
             /\ UNCHANGED <<ongoing, probes, rankedList>>
        ELSE IF Len(rpcUrls) = 0
        THEN /\ rankedList' = [rankedList EXCEPT ![p] = <<>>]
             /\ pc' = [pc EXCEPT ![p] = "ranked"]
             /\ UNCHANGED <<ongoing, probes, testPromise>>
        ELSE /\ probes' = Append(probes, NewProbe(c, rpcUrls, call[p].burst))
             /\ ongoing' = [ongoing EXCEPT ![c] = Len(probes) + 1]
             /\ testPromise' = [testPromise EXCEPT ![p] = Len(probes) + 1]
             /\ pc' = [pc EXCEPT ![p] = "awaitOwn"]
             /\ UNCHANGED rankedList
  /\ reads' = [reads EXCEPT ![p] = NoReads]
  /\ UNCHANGED <<cacheVars, now, singleRpc, probeRun, kvErrors, http, sendVars, call, snap, latencyMap, fastest,
                 outcome, started>>
  /\ MicrotaskStep

\* the selector of the manager, with the data source of the manager
CheckCache(p) == CheckCacheWith(p, getRpcUrls(ChainOf(p)))

\* testRpcUrls settles: every url has its result (Promise.allSettled)
TestRpcUrlsDone(j, results) ==
  /\ j \in 1..Len(probes)
  /\ ~probes[j].settled
  /\ probes' = [probes EXCEPT ![j].settled = TRUE,
                              ![j].result = testRpcUrlsResult(probes[j].urls, results)]
  /\ UNCHANGED <<cacheVars, now, singleRpc, probeRun, kvErrors, http, reads, ongoing, sendVars, pc, call, snap, latencyMap,
                 fastest, testPromise, rankedList, outcome, started>>
  /\ EventStep

\* the promise of testRpcUrls rejects: an error was thrown in it
TestRpcUrlsFailed(j) ==
  /\ j \in 1..Len(probes)
  /\ ~probes[j].settled
  /\ probes' = [probes EXCEPT ![j].settled = TRUE, ![j].failed = TRUE]
  /\ UNCHANGED <<cacheVars, now, singleRpc, probeRun, kvErrors, http, reads, ongoing, sendVars, pc, call, snap,
                 latencyMap, fastest, testPromise, rankedList, outcome, started>>
  /\ EventStep

\* what send throws when getRankedRpcList threw the error of the test
ProbeError == [type |-> "ProbeError", value |-> ""]

\* a caller that ranked the map it had read from the cache, not the awaited one
CachedMap(p) == latencyMap[p]

\* what a caller that awaited the test in progress goes on with
SharedMap(p) == Some(probes[testPromise[p]].result)

\* a caller that awaited the test in progress and went on as the caller that
\* started it does: with updateChainCache
AwaitSharedStoring(p) ==
  /\ pc[p] = "awaitShared"
  /\ probes[testPromise[p]].settled
  /\ latencyMap' = [latencyMap EXCEPT ![p] =
       IF probes[testPromise[p]].failed THEN Some(<<>>)
       ELSE Some(probes[testPromise[p]].result)]
  /\ pc' = [pc EXCEPT ![p] =
       IF IsDisabled \/ probes[testPromise[p]].failed THEN "finally" ELSE "update"]
  /\ UNCHANGED <<cacheVars, now, singleRpc, probeRun, kvErrors, http, reads, ongoing, probes, sendVars, call, snap,
                 fastest, testPromise, rankedList, outcome, started>>
  /\ MicrotaskStep

\* a caller that awaited the test in progress: latencyMap = await testPromise,
\* then the ranking; the await is in no try block, and a rejection leaves
\* getRankedRpcList and send as it is
AwaitShared(p) ==
  /\ pc[p] = "awaitShared"
  /\ probes[testPromise[p]].settled
  /\ IF probes[testPromise[p]].failed
     THEN /\ outcome' = [outcome EXCEPT ![p] = ProbeError]
          /\ pc' = [pc EXCEPT ![p] = "done"]
          /\ UNCHANGED <<latencyMap, rankedList, probes>>
     ELSE /\ latencyMap' = [latencyMap EXCEPT ![p] = SharedMap(p)]
          /\ rankedList' = [rankedList EXCEPT ![p] = rankResults(SharedMap(p))]
          /\ probes' = [probes EXCEPT ![testPromise[p]].served =
                          @ \cup {[caller |-> p, role |-> "shared",
                                   list |-> rankResults(SharedMap(p))]}]
          /\ pc' = [pc EXCEPT ![p] = "ranked"]
          /\ UNCHANGED outcome
  /\ UNCHANGED <<cacheVars, now, singleRpc, probeRun, kvErrors, http, reads, ongoing, sendVars, call, snap, fastest,
                 testPromise, started>>
  /\ MicrotaskStep

\* a selector that stored the results of its test only when they had a
\* usable url
AwaitOwnStoringUsable(p) ==
  /\ pc[p] = "awaitOwn"
  /\ probes[testPromise[p]].settled
  /\ latencyMap' = [latencyMap EXCEPT ![p] =
       IF probes[testPromise[p]].failed THEN Some(<<>>)
       ELSE Some(probes[testPromise[p]].result)]
  /\ pc' = [pc EXCEPT ![p] =
       IF \/ IsDisabled \/ probes[testPromise[p]].failed
          \/ IsNull(findFastestInMap(Some(probes[testPromise[p]].result)))
       THEN "finally" ELSE "update"]
  /\ UNCHANGED <<cacheVars, now, singleRpc, probeRun, kvErrors, http, reads, ongoing, probes, sendVars, call, snap,
                 fastest, testPromise, rankedList, outcome, started>>
  /\ MicrotaskStep

\* the caller that started the test: latencyMap = await testPromise,
\* _findFastestInMap, updateChainCache up to its first await (its loadCache
\* returns at once); catch: latencyMap = {}
AwaitOwn(p) ==
  /\ pc[p] = "awaitOwn"
  /\ probes[testPromise[p]].settled
  /\ latencyMap' = [latencyMap EXCEPT ![p] =
       IF probes[testPromise[p]].failed THEN Some(<<>>)
       ELSE Some(probes[testPromise[p]].result)]
  /\ pc' = [pc EXCEPT ![p] =
       IF IsDisabled \/ probes[testPromise[p]].failed THEN "finally" ELSE "update"]
  /\ UNCHANGED <<cacheVars, now, singleRpc, probeRun, kvErrors, http, reads, ongoing, probes, sendVars, call, snap,
                 fastest, testPromise, rankedList, outcome, started>>
  /\ MicrotaskStep

\* the entry updateChainCache stores
NewChainCache(lm, dateNow) ==
  LET newFastest == findFastestInMap(lm)
  IN [fastestRpc |-> IF IsNull(newFastest) THEN Null ELSE Some(Val(newFastest).url),
      latencyMap |-> Val(lm),
      lastTested |-> dateNow]

\* updateChainCache after loadCache: this.cache[chainId] = {...}; saveCache
\* up to its first await
UpdateChainCache(p) ==
  /\ pc[p] = "update"
  /\ cache' = [cache EXCEPT ![ChainOf(p)] = Some(NewChainCache(latencyMap[p], now))]
  /\ pc' = [pc EXCEPT ![p] = "kvSet"]
  /\ probes' = [probes EXCEPT ![testPromise[p]].writes = @ + 1]
  /\ UNCHANGED <<cacheLoaded, disabled, kvStore, now, singleRpc, probeRun, kvErrors, http, reads, ongoing, sendVars,
                 call, snap, latencyMap, fastest, testPromise, rankedList,
                 outcome, started>>
  /\ MicrotaskStep

\* saveCache: kv.set([cacheKey], this.cache) writes the whole root
KvSet(p) ==
  /\ pc[p] = "kvSet"
  /\ kvStore' = Some(cache)
  /\ pc' = [pc EXCEPT ![p] = "finally"]
  /\ UNCHANGED <<cache, cacheLoaded, disabled, now, singleRpc, probeRun, kvErrors, http, reads, ongoing, probes, sendVars,
                 call, snap, latencyMap, fastest, testPromise, rankedList,
                 outcome, started>>
  /\ MicrotaskStep

\* a saveCache without its catch block: the error of kv.set leaves
\* updateChainCache and reaches the catch block of getRankedRpcList
KvSetFailedRethrown(p) ==
  /\ pc[p] = "kvSet"
  /\ kvErrors' = [kvErrors EXCEPT ![p] = @ \cup {"set"}]
  /\ latencyMap' = [latencyMap EXCEPT ![p] = Some(<<>>)]
  /\ pc' = [pc EXCEPT ![p] = "finally"]
  /\ UNCHANGED <<cacheVars, now, singleRpc, probeRun, http, reads, ongoing, probes,
                 sendVars, call, snap, fastest, testPromise, rankedList,
                 outcome, started>>
  /\ MicrotaskStep

\* saveCache: Deno.openKv or kv.set rejects; the catch block logs the
\* error, and saveCache and updateChainCache return
KvSetFailed(p) ==
  /\ pc[p] = "kvSet"
  /\ kvErrors' = [kvErrors EXCEPT ![p] = @ \cup {"set"}]
  /\ pc' = [pc EXCEPT ![p] = "finally"]
  /\ UNCHANGED <<cacheVars, now, singleRpc, probeRun, http, reads, ongoing, probes,
                 sendVars, call, snap, latencyMap, fastest, testPromise,
                 rankedList, outcome, started>>
  /\ MicrotaskStep

\* a selector that deregistered at the end of its try block: not after the
\* catch block
FinallyOnSuccess(p) ==
  /\ pc[p] = "finally"
  /\ ongoing' = IF probes[testPromise[p]].failed THEN ongoing
                ELSE [ongoing EXCEPT ![ChainOf(p)] = 0]
  /\ rankedList' = [rankedList EXCEPT ![p] = rankResults(latencyMap[p])]
  /\ probes' = [probes EXCEPT ![testPromise[p]].served =
                  @ \cup {[caller |-> p, role |-> "own",
                           list |-> rankResults(latencyMap[p])]}]
  /\ pc' = [pc EXCEPT ![p] = "ranked"]
  /\ UNCHANGED <<cacheVars, now, singleRpc, probeRun, kvErrors, http, reads, sendVars, call, snap, latencyMap, fastest,
                 testPromise, outcome, started>>
  /\ IF IsDisabled \/ probes[testPromise[p]].failed THEN MicrotaskStep ELSE EventStep

\* finally: ongoingLatencyTests.delete(chainId); then the ranking.  It runs
\* when kv.set has completed, or at once when updateChainCache returned for
\* a disabled cache or the catch block ran.
Finally(p) ==
  /\ pc[p] = "finally"
  /\ ongoing' = [ongoing EXCEPT ![ChainOf(p)] = 0]
  /\ rankedList' = [rankedList EXCEPT ![p] = rankResults(latencyMap[p])]
  /\ probes' = [probes EXCEPT ![testPromise[p]].served =
                  @ \cup {[caller |-> p, role |-> "own",
                           list |-> rankResults(latencyMap[p])]}]
  /\ pc' = [pc EXCEPT ![p] = "ranked"]
  /\ UNCHANGED <<cacheVars, now, singleRpc, probeRun, kvErrors, http, reads, sendVars, call, snap, latencyMap, fastest,
                 testPromise, outcome, started>>
  /\ IF IsDisabled \/ probes[testPromise[p]].failed THEN MicrotaskStep ELSE EventStep

\* what send would throw for an empty list without its length check: the
\* loop runs no iteration and the final throw is reached
AllFailedForEmpty == [type |-> "AllFailed", value |-> ""]

\* what send throws for an empty list
NoEndpointsError == [type |-> "NoEndpoints", value |-> ""]

\* a send that started at the stored index as it is
StartIndexUnreduced(currentIndex, n) == currentIndex

\* const startIndex = currentIndex % rankedRpcList.length
StartIndexOf(currentIndex, n) == currentIndex % n

\* an index that was never advanced
SameRpcIndex(currentIndex, n) == currentIndex % n

\* the index stored for the next call: (currentIndex + 1) % length
NextRpcIndex(currentIndex, n) == (currentIndex + 1) % n

\* a send that had read the index when it was called and stored its
\* successor after getRankedRpcList: with another send of the chain in its
\* attempt loop, it has the value which that one read
RankedLostUpdate(p) ==
  /\ pc[p] = "ranked"
  /\ LET c == ChainOf(p)
         n == Len(rankedList[p])
         overlapped == \E q \in Callers \ {p} : ChainOf(q) = c /\ pc[q] = "attempt"
         currentIndex == IF overlapped /\ rrLog[c] # <<>>
                         THEN rrLog[c][Len(rrLog[c])].currentIndex
                         ELSE rpcIndexMap[c]
     IN IF n = 0
        THEN /\ outcome' = [outcome EXCEPT ![p] = NoEndpointsError]
             /\ pc' = [pc EXCEPT ![p] = "done"]
             /\ UNCHANGED sendVars
        ELSE /\ startIndex' = [startIndex EXCEPT ![p] = StartIndexOf(currentIndex, n)]
             /\ rpcIndexMap' = [rpcIndexMap EXCEPT ![c] = NextRpcIndex(currentIndex, n)]
             /\ rrLog' = [rrLog EXCEPT ![c] =
                            Append(@, [currentIndex |-> currentIndex, n |-> n,
                                       startIndex |-> StartIndexOf(currentIndex, n)])]
             /\ loopI' = [loopI EXCEPT ![p] = 0]
             /\ pc' = [pc EXCEPT ![p] = "attempt"]
             /\ UNCHANGED <<lastError, attempts, outcome>>
  /\ UNCHANGED <<cacheVars, now, singleRpc, probeRun, kvErrors, http, reads, ongoing, probes, call, snap, latencyMap,
                 fastest, testPromise, rankedList, started>>
  /\ MicrotaskStep

\* send after getRankedRpcList returned: no endpoints, or the round-robin
\* start index and the first upstream call
Ranked(p) ==
  /\ pc[p] = "ranked"
  /\ LET c == ChainOf(p)
         n == Len(rankedList[p])
         currentIndex == rpcIndexMap[c]
     IN IF n = 0
        THEN /\ outcome' = [outcome EXCEPT ![p] = NoEndpointsError]
             /\ pc' = [pc EXCEPT ![p] = "done"]
             /\ UNCHANGED sendVars
        ELSE /\ startIndex' = [startIndex EXCEPT ![p] = StartIndexOf(currentIndex, n)]
             /\ rpcIndexMap' = [rpcIndexMap EXCEPT ![c] = NextRpcIndex(currentIndex, n)]
             /\ rrLog' = [rrLog EXCEPT ![c] =
                            Append(@, [currentIndex |-> currentIndex, n |-> n,
                                       startIndex |-> StartIndexOf(currentIndex, n)])]
             /\ loopI' = [loopI EXCEPT ![p] = 0]
             /\ pc' = [pc EXCEPT ![p] = "attempt"]
             /\ UNCHANGED <<lastError, attempts, outcome>>
  /\ UNCHANGED <<cacheVars, now, singleRpc, probeRun, kvErrors, http, reads, ongoing, probes, call, snap, latencyMap,
                 fastest, testPromise, rankedList, started>>
  /\ MicrotaskStep

\* a loop that took no account of the start index
AttemptUrlFromZero(list, start, i) == list[(i % Len(list)) + 1]

\* the url of attempt i of the loop of send
AttemptUrl(list, start, i) == list[((start + i) % Len(list)) + 1]

\* a loop that gave up one url early
LoopStopsEarly(i, n) == i < n - 1

\* a loop that ran once more than the list is long
LoopContinuesOnceMore(i, n) == i <= n

\* the loop of send continues while i < rankedRpcList.length
LoopContinues(i, n) == i < n

\* a send that moved the index of the chain on with every upstream that
\* failed
ExecuteRpcCallAdvancing(p, response) ==
  /\ pc[p] = "attempt"
  /\ LET rpcUrl == AttemptUrl(rankedList[p], startIndex[p], loopI[p])
         r == executeRpcCall(response)
         n == Len(rankedList[p])
         c == ChainOf(p)
     IN /\ attempts' = [attempts EXCEPT ![p] =
                          Append(@, [url |-> rpcUrl, response |-> response])]
        /\ IF r.ok
           THEN /\ outcome' = [outcome EXCEPT ![p] =
                                 [type |-> "result", value |-> r.value]]
                /\ pc' = [pc EXCEPT ![p] = "done"]
                /\ UNCHANGED <<lastError, loopI, rpcIndexMap, rrLog>>
           ELSE /\ lastError' = [lastError EXCEPT ![p] = r.value]
                /\ loopI' = [loopI EXCEPT ![p] = @ + 1]
                /\ rpcIndexMap' = [rpcIndexMap EXCEPT ![c] = NextRpcIndex(@, n)]
                /\ rrLog' = [rrLog EXCEPT ![c] =
                               Append(@, [currentIndex |-> rpcIndexMap[c], n |-> n,
                                          startIndex |-> startIndex[p]])]
                /\ IF LoopContinues(loopI[p] + 1, n)
                   THEN UNCHANGED <<outcome, pc>>
                   ELSE /\ outcome' = [outcome EXCEPT ![p] =
                                         [type |-> "AllFailed",
                                          value |-> lastError'[p]]]
                        /\ pc' = [pc EXCEPT ![p] = "done"]
  /\ UNCHANGED <<cacheVars, now, singleRpc, probeRun, kvErrors, http, reads, ongoing, probes, startIndex,
                 call, snap, latencyMap, fastest, testPromise, rankedList, started>>
  /\ EventStep

\* a send that dropped the cache entry of the chain when an upstream failed
ExecuteRpcCallInvalidating(p, response) ==
  /\ pc[p] = "attempt"
  /\ LET rpcUrl == rankedList[p][((startIndex[p] + loopI[p]) % Len(rankedList[p])) + 1]
         r == executeRpcCall(response)
         n == Len(rankedList[p])
     IN /\ attempts' = [attempts EXCEPT ![p] =
                          Append(@, [url |-> rpcUrl, response |-> response])]
        /\ IF r.ok
           THEN /\ outcome' = [outcome EXCEPT ![p] =
                                 [type |-> "result", value |-> r.value]]
                /\ pc' = [pc EXCEPT ![p] = "done"]
                /\ UNCHANGED <<lastError, loopI, cache>>
           ELSE /\ lastError' = [lastError EXCEPT ![p] = r.value]
                /\ loopI' = [loopI EXCEPT ![p] = @ + 1]
                /\ cache' = [cache EXCEPT ![ChainOf(p)] = Null]
                /\ IF loopI[p] + 1 < n
                   THEN UNCHANGED <<outcome, pc>>
                   ELSE /\ outcome' = [outcome EXCEPT ![p] =
                                         [type |-> "AllFailed",
                                          value |-> lastError'[p]]]
                        /\ pc' = [pc EXCEPT ![p] = "done"]
  /\ UNCHANGED <<cacheLoaded, disabled, kvStore, now, singleRpc, probeRun, kvErrors, http, reads, ongoing, probes,
                 rpcIndexMap, startIndex, rrLog, call, snap, latencyMap,
                 fastest, testPromise, rankedList, started>>
  /\ EventStep

\* one upstream call of the loop of send settles: return its result, or
\* keep the error and go on with the next url, or throw after the last one
ExecuteRpcCall(p, response) ==
  /\ pc[p] = "attempt"
  /\ LET rpcUrl == AttemptUrl(rankedList[p], startIndex[p], loopI[p])
         r == executeRpcCall(response)
         n == Len(rankedList[p])
     IN /\ attempts' = [attempts EXCEPT ![p] =
                          Append(@, [url |-> rpcUrl, response |-> response])]
        /\ IF r.ok
           THEN /\ outcome' = [outcome EXCEPT ![p] =
                                 [type |-> "result", value |-> r.value]]
                /\ pc' = [pc EXCEPT ![p] = "done"]
                /\ UNCHANGED <<lastError, loopI>>
           ELSE /\ lastError' = [lastError EXCEPT ![p] = r.value]
                /\ loopI' = [loopI EXCEPT ![p] = @ + 1]
                /\ IF LoopContinues(loopI[p] + 1, n)
                   THEN UNCHANGED <<outcome, pc>>
                   ELSE /\ outcome' = [outcome EXCEPT ![p] =
                                         [type |-> "AllFailed",
                                          value |-> lastError'[p]]]
                        /\ pc' = [pc EXCEPT ![p] = "done"]
  /\ UNCHANGED <<cacheVars, now, singleRpc, probeRun, kvErrors, http, reads, ongoing, probes, rpcIndexMap, startIndex, rrLog,
                 call, snap, latencyMap, fastest, testPromise, rankedList, started>>
  /\ EventStep

\* the call has returned or thrown: its locals are gone, and so is the
\* promise it awaited once nothing else refers to it
SendSettled(p) ==
  /\ pc[p] = "done"
  /\ pc' = [pc EXCEPT ![p] = "idle"]
  /\ call' = [call EXCEPT ![p] = NoCall]
  /\ latencyMap' = [latencyMap EXCEPT ![p] = Null]
  /\ fastest' = [fastest EXCEPT ![p] = Null]
  /\ testPromise' = [testPromise EXCEPT ![p] = 0]
  /\ rankedList' = [rankedList EXCEPT ![p] = <<>>]
  /\ startIndex' = [startIndex EXCEPT ![p] = 0]
  /\ loopI' = [loopI EXCEPT ![p] = 0]
  /\ lastError' = [lastError EXCEPT ![p] = ""]
  /\ attempts' = [attempts EXCEPT ![p] = <<>>]
  /\ outcome' = [outcome EXCEPT ![p] = NoOutcome]
  /\ reads' = [reads EXCEPT ![p] = NoReads]
  /\ probes' = [j \in 1..Len(probes) |->
        IF j = testPromise[p] /\ ongoing[probes[j].chainId] # j
           /\ \A q \in Callers \ {p} : testPromise[q] # j
        THEN [probes[j] EXCEPT !.result = <<>>, !.served = {}, !.urls = <<>>]
        ELSE probes[j]]
  /\ UNCHANGED <<cacheVars, now, singleRpc, probeRun, kvErrors, ongoing, rpcIndexMap, rrLog, snap, started>>

\* send has settled for a caller that called it directly
Return(p) == SendSettled(p) /\ UNCHANGED http /\ MicrotaskStep

\* -------------------------------------------------------- HTTP front-end
\* A request object of a body: its jsonrpc and method members ("" for a
\* missing method) and its id, a number or null.
RequestObjects ==
  {[jsonrpc |-> v, method |-> m, id |-> i] :
     v \in {"2.0", "1.0"}, m \in {"eth_chainId", ""}, i \in {Some(10), Some(11)}}

\* isValidJsonRpcRequest, for objects whose params and id are well-typed
isValidJsonRpcRequest(obj) == obj.jsonrpc = "2.0" /\ obj.method # ""

\* createJsonRpcError
createJsonRpcError(id, code, message) ==
  [id |-> id, result |-> Null, error |-> Some([code |-> code, message |-> message])]

\* the message of the Error that send throws, in its parts
ErrorMessage(o, chainId) ==
  CASE o.type = "NoEndpoints" ->
         <<"No available RPC endpoints found for chainId ", ToString(chainId), ".">>
    [] o.type = "AllFailed" ->
         <<"All available RPC endpoints failed for chainId ", ToString(chainId),
           ". Last error: ", o.value>>
    [] OTHER -> <<"Latency test failed">>

\* an item whose error object was given the id of the other error paths
ItemResponseNullId(req, o, chainId) ==
  IF o.type = "result"
  THEN [id |-> req.id,
        result |-> IF o.value = "undefined" THEN Null ELSE Some(o.value),
        error |-> Null]
  ELSE createJsonRpcError(Null, -32000,
                          <<"Internal Server Error: ">> \o ErrorMessage(o, chainId))

\* the response object of one request as the client parses it from the
\* body: JSON.stringify leaves out a result that is undefined
ItemResponse(req, o, chainId) ==
  IF o.type = "result"
  THEN [id |-> req.id,
        result |-> IF o.value = "undefined" THEN Null ELSE Some(o.value),
        error |-> Null]
  ELSE createJsonRpcError(req.id, -32000,
                          <<"Internal Server Error: ">> \o ErrorMessage(o, chainId))

\* a single branch that answered 200 whatever send did
SingleStatusAlwaysOk(o) == 200

\* the status of the response of the single branch
SingleStatus(o) == IF o.type = "result" THEN 200 ELSE 500

\* the handler from the parsed body to its first await: 400 for an empty
\* batch, a batch with an invalid object or an invalid single object;
\* otherwise manager.send is called for the object, or for every object of
\* the batch in turn, each call running up to its first await
HandleRequest(chainId, body, maxRequests) ==
  /\ http.state # "pending"
  /\ \A p \in Callers : pc[p] = "idle"
  /\ started < maxRequests
  /\ started' = started + 1
  /\ LET n == Len(body.items)
         invalidMessage ==
           IF ~body.batch
           THEN "Invalid Request: Not a valid JSON-RPC object or batch."
           ELSE IF n = 0 THEN "Invalid Request: Received empty batch."
           ELSE "Invalid Request: Batch contains invalid JSON-RPC object(s)."
     IN IF n > 0 /\ \A i \in 1..n : isValidJsonRpcRequest(body.items[i])
        THEN /\ http' = [state |-> "pending", chainId |-> chainId, body |-> body,
                         responses |-> [i \in 1..n |-> Null]]
             /\ call' = [p \in Callers |->
                  IF p <= n THEN [chainId |-> chainId, burst |-> IsCold(chainId)]
                  ELSE call[p]]
             /\ pc' = [p \in Callers |->
                  IF p <= n
                  THEN IF LoadCacheNeeded THEN "kvGet" ELSE "getLatencyMap"
                  ELSE pc[p]]
        ELSE /\ http' = [state |-> "responded", chainId |-> chainId, body |-> body,
                         status |-> 400, array |-> FALSE,
                         objects |-> <<createJsonRpcError(Null, -32600,
                                                          <<invalidMessage>>)>>]
             /\ UNCHANGED <<call, pc>>
  /\ UNCHANGED <<cacheVars, now, singleRpc, probeRun, kvErrors, reads, ongoing, probes, sendVars, snap,
                 latencyMap, fastest, testPromise, rankedList, outcome>>
  /\ EventStep

\* the single branch after await manager.send: the response, 200 with the
\* result or 500 with the error
SingleSettled(p) ==
  /\ http.state = "pending"
  /\ ~http.body.batch
  /\ SendSettled(p)
  /\ http' = [state |-> "responded", chainId |-> http.chainId, body |-> http.body,
              status |-> SingleStatus(outcome[p]), array |-> FALSE,
              objects |-> <<ItemResponse(http.body.items[p], outcome[p],
                                         http.chainId)>>]
  /\ MicrotaskStep

\* the function mapped over the batch, after await manager.send: the
\* response object of its request
BatchItemSettled(p) ==
  /\ http.state = "pending"
  /\ http.body.batch
  /\ SendSettled(p)
  /\ http' = [http EXCEPT !.responses[p] =
                Some(ItemResponse(http.body.items[p], outcome[p], http.chainId))]
  /\ MicrotaskStep

\* the batch branch after await Promise.all(promises): 200 with the array
\* of the response objects in the order of the requests
BatchRespond ==
  /\ BatchReady
  /\ http' = [state |-> "responded", chainId |-> http.chainId, body |-> http.body,
              status |-> 200, array |-> TRUE,
              objects |-> [i \in 1..Len(http.responses) |-> Val(http.responses[i])]]
  /\ UNCHANGED <<cacheVars, now, singleRpc, probeRun, kvErrors, reads, ongoing, probes, sendVars, pc,
                 call, snap, latencyMap, fastest, testPromise, rankedList,
                 outcome, started>>
  /\ MicrotaskStep

\* Date.now() advances between two events
Tick(maxNow) ==
  /\ now < maxNow
  /\ now' = now + 1
  /\ UNCHANGED <<cacheVars, singleRpc, probeRun, kvErrors, http, reads, ongoing, probes, sendVars, pc, call,
                 snap, latencyMap, fastest, testPromise, rankedList, outcome,
                 started>>
  /\ EventStep

\* testSingleRpc runs for one url with the given ends of its two calls
TestSingleRpc(getCode, syncing, first) ==
  /\ singleRpc' = [kind |-> "fulfilled", getCode |-> getCode, syncing |-> syncing,
                   first |-> first,
                   result |-> testSingleRpc(getCode, syncing, first)]
  /\ UNCHANGED <<cacheVars, now, probeRun, kvErrors, http, reads, ongoing, probes, sendVars, pc, call, snap,
                 latencyMap, fastest, testPromise, rankedList, outcome,
                 started, draining>>

\* testRpcUrls finds the promise of a url rejected
TestSingleRpcRejected ==
  /\ singleRpc' = [kind |-> "rejected", result |-> RejectedResult]
  /\ UNCHANGED <<cacheVars, now, probeRun, kvErrors, http, reads, ongoing, probes, sendVars, pc, call, snap,
                 latencyMap, fastest, testPromise, rankedList, outcome,
                 started, draining>>

\* testRpcUrls(urls): [] gives {} at once; else testSingleRpc is called for
\* every url, in order, and Promise.allSettled awaits them
TestRpcUrls(urls) ==
  /\ probeRun.state \in {"idle", "done"}
  /\ probeRun' = [state |-> IF Len(urls) = 0 THEN "done" ELSE "running",
                  urls |-> urls,
                  tasks |-> [i \in 1..Len(urls) |-> Null],
                  map |-> <<>>]
  /\ UNCHANGED <<cacheVars, now, singleRpc, kvErrors, http, reads, ongoing, probes,
                 sendVars, pc, call, snap, latencyMap, fastest, testPromise,
                 rankedList, outcome, started, draining>>

NoRpcCall == [kind |-> "none", at |-> 0, body |-> "none"]

\* the testSingleRpc of the i-th url returns: its two calls have ended
TaskFulfilled(i, getCode, syncing, first) ==
  /\ probeRun.state = "running"
  /\ i \in 1..Len(probeRun.urls)
  /\ IsNull(probeRun.tasks[i])
  /\ probeRun' = [probeRun EXCEPT !.tasks[i] =
                    Some([kind |-> "fulfilled", getCode |-> getCode,
                          syncing |-> syncing, first |-> first])]
  /\ UNCHANGED <<cacheVars, now, singleRpc, kvErrors, http, reads, ongoing, probes,
                 sendVars, pc, call, snap, latencyMap, fastest, testPromise,
                 rankedList, outcome, started, draining>>

\* the testSingleRpc of the i-th url throws
TaskRejected(i) ==
  /\ probeRun.state = "running"
  /\ i \in 1..Len(probeRun.urls)
  /\ IsNull(probeRun.tasks[i])
  /\ probeRun' = [probeRun EXCEPT !.tasks[i] =
                    Some([kind |-> "rejected", getCode |-> NoRpcCall,
                          syncing |-> NoRpcCall, first |-> 1])]
  /\ UNCHANGED <<cacheVars, now, singleRpc, kvErrors, http, reads, ongoing, probes,
                 sendVars, pc, call, snap, latencyMap, fastest, testPromise,
                 rankedList, outcome, started, draining>>

\* a tester for which one task that threw or timed out spoiled the run:
\* every url gets the made-up result
SettledResultSpoiled(tasks, i) ==
  IF \E k \in 1..Len(tasks) :
       Val(tasks[k]).kind = "rejected" \/ Val(tasks[k]).getCode.kind = "abort"
  THEN RejectedResult
  ELSE testSingleRpc(Val(tasks[i]).getCode, Val(tasks[i]).syncing, Val(tasks[i]).first)

\* results.forEach: result.value of a fulfilled task, the made-up result
\* for a rejected one
SettledResult(tasks, i) ==
  IF Val(tasks[i]).kind = "rejected" THEN RejectedResult
  ELSE testSingleRpc(Val(tasks[i]).getCode, Val(tasks[i]).syncing, Val(tasks[i]).first)

\* Promise.allSettled resolves when every task has settled; testRpcUrls
\* builds resultMap and returns it
TestRpcUrlsReturns ==
  /\ probeRun.state = "running"
  /\ \A i \in 1..Len(probeRun.urls) : ~IsNull(probeRun.tasks[i])
  /\ probeRun' = [probeRun EXCEPT
                    !.state = "done",
                    !.map = testRpcUrlsResult(probeRun.urls,
                              [i \in 1..Len(probeRun.urls) |->
                                 SettledResult(probeRun.tasks, i)])]
  /\ UNCHANGED <<cacheVars, now, singleRpc, kvErrors, http, reads, ongoing, probes,
                 sendVars, pc, call, snap, latencyMap, fastest, testPromise,
                 rankedList, outcome, started, draining>>

\* ---------------------------------------------------------- specification
Next ==
  \/ \E p \in 1..NumCallers, c \in ChainIds : StartCall(p, c, MaxCalls)
  \/ \E p \in Callers : KvGet(p)
  \/ \E p \in Callers : LoadCacheDone(p)
  \/ \E p \in Callers : GetLatencyMap(p)
  \/ \E p \in Callers : GetFastestRpc(p)
  \/ \E p \in Callers : CheckCache(p)
  \/ \E j \in 1..Len(probes) :
       \E results \in [1..Len(probes[j].urls) -> ProbeOutcomes] :
         TestRpcUrlsDone(j, results)
  \/ \E p \in Callers : AwaitShared(p)
  \/ \E p \in Callers : AwaitOwn(p)
  \/ \E p \in Callers : UpdateChainCache(p)
  \/ \E p \in Callers : KvSet(p)
  \/ \E p \in Callers : Finally(p)
  \/ \E p \in Callers : Ranked(p)
  \/ \E p \in Callers, response \in SendResponses : ExecuteRpcCall(p, response)
  \/ \E p \in Callers : Return(p)

Spec == Init /\ [][Next]_vars

\* ------------------------------------------------- sequential runs
\* One caller, one call after the other, on a KV that is empty or holds an
\* entry of chain 1 that an earlier run of the selector stored: any probe
\* map of three urls with the fastestRpc the selector computes for it.
WarmUrls == <<"A", "B", "C">>

WarmMaps ==
  {testRpcUrlsResult(WarmUrls, results) :
     results \in [1..Len(WarmUrls) -> AllProbeOutcomes]}

WarmRoot(m) ==
  [c \in AllChainIds |-> IF c = 1 THEN Some(NewChainCache(Some(m), 0)) ELSE Null]

InitSeq ==
  /\ cache = EmptyRoot
  /\ cacheLoaded = FALSE
  /\ disabled = FALSE
  /\ kvStore \in {Null} \cup {Some(WarmRoot(m)) : m \in WarmMaps}
  /\ now = 0
  /\ singleRpc = NoSingleRpc
  /\ probeRun = NoProbeRun
  /\ kvErrors = [p \in Callers |-> {}]
  /\ ongoing = [c \in AllChainIds |-> 0]
  /\ probes = <<>>
  /\ rpcIndexMap = [c \in AllChainIds |-> 0]
  /\ pc = [p \in Callers |-> "idle"]
  /\ call = [p \in Callers |-> NoCall]
  /\ snap = [p \in Callers |-> Null]
  /\ latencyMap = [p \in Callers |-> Null]
  /\ fastest = [p \in Callers |-> Null]
  /\ testPromise = [p \in Callers |-> 0]
  /\ rankedList = [p \in Callers |-> <<>>]
  /\ startIndex = [p \in Callers |-> 0]
  /\ loopI = [p \in Callers |-> 0]
  /\ lastError = [p \in Callers |-> ""]
  /\ attempts = [p \in Callers |-> <<>>]
  /\ outcome = [p \in Callers |-> NoOutcome]
  /\ rrLog = [c \in AllChainIds |-> <<>>]
  /\ started = 0
  /\ http = NoRequest
  /\ reads = [p \in Callers |-> NoReads]
  /\ draining = FALSE

NextSeq ==
  \/ \E c \in ChainIds : StartCall(1, c, MaxSeqCalls)
  \/ KvGet(1)
  \/ LoadCacheDone(1)
  \/ GetLatencyMap(1)
  \/ GetFastestRpc(1)
  \/ CheckCache(1)
  \/ \E j \in 1..Len(probes) :
       \E results \in [1..Len(probes[j].urls) -> ProbeOutcomes] :
         TestRpcUrlsDone(j, results)
  \/ AwaitOwn(1)
  \/ UpdateChainCache(1)
  \/ KvSet(1)
  \/ Finally(1)
  \/ Ranked(1)
  \/ \E response \in SendResponses : ExecuteRpcCall(1, response)
  \/ Return(1)

SpecSeq == InitSeq /\ [][NextSeq]_vars

\* ------------------------------------------- runs on a stored cache
\* One caller, one call after the other, with the clock running, caching on
\* or off, upstreams that answer with or without a result, and a KV that is
\* empty or holds an entry of chain 1.  The KV outlives the process and is
\* written by other instances and versions too: the entry is any ChainCache
\* value.
MaxNow == 3              \* Date.now() runs from 0 to MaxNow
MaxCacheCalls == 2       \* calls of these runs

\* the answers the sends of these runs draw from: every kind of success
\* and one failure
CacheResponses == {"result", "null_result", "no_result", "http_error"}

StoredOutcomes ==
  {o \in AllProbeOutcomes : o.status \in {"ok", "syncing", "http_error"}}

StoredMaps ==
  {testRpcUrlsResult(<<"A", "B">>, results) :
     results \in [1..2 -> StoredOutcomes]}

StoredEntries ==
  {[fastestRpc |-> f, latencyMap |-> m, lastTested |-> 0] :
     f \in {Null, Some("A"), Some("B"), Some("C")}, m \in StoredMaps}

StoredRoot(entry) == [c \in AllChainIds |-> IF c = 1 THEN Some(entry) ELSE Null]

InitCache ==
  /\ cache = EmptyRoot
  /\ cacheLoaded = FALSE
  /\ disabled \in BOOLEAN
  /\ kvStore \in {Null} \cup {Some(StoredRoot(e)) : e \in StoredEntries}
  /\ now = 0
  /\ singleRpc = NoSingleRpc
  /\ probeRun = NoProbeRun
  /\ kvErrors = [p \in Callers |-> {}]
  /\ ongoing = [c \in AllChainIds |-> 0]
  /\ probes = <<>>
  /\ rpcIndexMap = [c \in AllChainIds |-> 0]
  /\ pc = [p \in Callers |-> "idle"]
  /\ call = [p \in Callers |-> NoCall]
  /\ snap = [p \in Callers |-> Null]
  /\ latencyMap = [p \in Callers |-> Null]
  /\ fastest = [p \in Callers |-> Null]
  /\ testPromise = [p \in Callers |-> 0]
  /\ rankedList = [p \in Callers |-> <<>>]
  /\ startIndex = [p \in Callers |-> 0]
  /\ loopI = [p \in Callers |-> 0]
  /\ lastError = [p \in Callers |-> ""]
  /\ attempts = [p \in Callers |-> <<>>]
  /\ outcome = [p \in Callers |-> NoOutcome]
  /\ rrLog = [c \in AllChainIds |-> <<>>]
  /\ started = 0
  /\ http = NoRequest
  /\ reads = [p \in Callers |-> NoReads]
  /\ draining = FALSE

NextCache ==
  \/ \E c \in {1, 3, 4} : StartCall(1, c, MaxCacheCalls)
  \/ Tick(MaxNow)
  \/ KvGet(1)
  \/ LoadCacheDone(1)
  \/ GetLatencyMap(1)
  \/ GetFastestRpc(1)
  \/ CheckCache(1)
  \/ \E j \in 1..Len(probes) :
       \E results \in [1..Len(probes[j].urls) -> ProbeOutcomes] :
         TestRpcUrlsDone(j, results)
  \/ AwaitOwn(1)
  \/ UpdateChainCache(1)
  \/ KvSet(1)
  \/ Finally(1)
  \/ Ranked(1)
  \/ \E response \in CacheResponses : ExecuteRpcCall(1, response)
  \/ Return(1)

SpecCache == InitCache /\ [][NextCache]_vars

\* ------------------------------------------ concurrent runs with the clock
\* Two callers on chain 1 with the clock running, tests that may also end
\* with an error, and a KV that is empty or holds the entry that an earlier
\* run of the selector stored for chain 1 at time 0.
MaxRaceCalls == 2

RaceMaps ==
  {testRpcUrlsResult(getRpcUrls(1), results) :
     results \in [1..Len(getRpcUrls(1)) -> ProbeOutcomes]}

InitRace ==
  /\ cache = EmptyRoot
  /\ cacheLoaded = FALSE
  /\ disabled = FALSE
  /\ kvStore \in {Null} \cup {Some(WarmRoot(m)) : m \in RaceMaps}
  /\ now = 0
  /\ singleRpc = NoSingleRpc
  /\ probeRun = NoProbeRun
  /\ kvErrors = [p \in Callers |-> {}]
  /\ ongoing = [c \in AllChainIds |-> 0]
  /\ probes = <<>>
  /\ rpcIndexMap = [c \in AllChainIds |-> 0]
  /\ pc = [p \in Callers |-> "idle"]
  /\ call = [p \in Callers |-> NoCall]
  /\ snap = [p \in Callers |-> Null]
  /\ latencyMap = [p \in Callers |-> Null]
  /\ fastest = [p \in Callers |-> Null]
  /\ testPromise = [p \in Callers |-> 0]
  /\ rankedList = [p \in Callers |-> <<>>]
  /\ startIndex = [p \in Callers |-> 0]
  /\ loopI = [p \in Callers |-> 0]
  /\ lastError = [p \in Callers |-> ""]
  /\ attempts = [p \in Callers |-> <<>>]
  /\ outcome = [p \in Callers |-> NoOutcome]
  /\ rrLog = [c \in AllChainIds |-> <<>>]
  /\ started = 0
  /\ http = NoRequest
  /\ reads = [p \in Callers |-> NoReads]
  /\ draining = FALSE

NextRace ==
  \/ \E p \in Callers : StartCall(p, 1, MaxRaceCalls)
  \/ Tick(CacheTtlMs)
  \/ \E p \in Callers : KvGet(p)
  \/ \E p \in Callers : LoadCacheDone(p)
  \/ \E p \in Callers : GetLatencyMap(p)
  \/ \E p \in Callers : GetFastestRpc(p)
  \/ \E p \in Callers : CheckCache(p)
  \/ \E j \in 1..Len(probes) :
       \E results \in [1..Len(probes[j].urls) -> ProbeOutcomes] :
         TestRpcUrlsDone(j, results)
  \/ \E j \in 1..Len(probes) : TestRpcUrlsFailed(j)
  \/ \E p \in Callers : AwaitShared(p)
  \/ \E p \in Callers : AwaitOwn(p)
  \/ \E p \in Callers : UpdateChainCache(p)
  \/ \E p \in Callers : KvSet(p)
  \/ \E p \in Callers : Finally(p)
  \/ \E p \in Callers : Ranked(p)
  \/ \E p \in Callers, response \in {"result", "http_error"} :
       ExecuteRpcCall(p, response)
  \/ \E p \in Callers : Return(p)

SpecRace == InitRace /\ [][NextRace]_vars

\* The event loop runs every continuation that is queued, and kv.set
\* completes: no step of a caller that needs nothing more from outside
\* waits forever.
Continuation(p) ==
  \/ GetLatencyMap(p) \/ GetFastestRpc(p) \/ CheckCache(p)
  \/ AwaitShared(p) \/ AwaitOwn(p) \/ UpdateChainCache(p) \/ KvSet(p)
  \/ Finally(p) \/ Ranked(p) \/ Return(p)

SpecRaceFair == SpecRace /\ \A p \in Callers : WF_vars(Continuation(p))

\* -------------------------------------------- runs of the HTTP front-end
\* One request at a time, single or a batch of up to NumCallers objects,
\* on a whitelisted chain or on one with no urls; caller i runs the send of
\* the i-th object.
MaxRequests == 2

Bodies ==
  {[batch |-> FALSE, items |-> <<r>>] : r \in RequestObjects} \cup
  {[batch |-> TRUE, items |-> items] :
     items \in UNION {[1..n -> RequestObjects] : n \in 0..NumCallers}}

NextHttp ==
  \/ \E c \in {1, 3}, body \in Bodies : HandleRequest(c, body, MaxRequests)
  \/ \E p \in Callers : KvGet(p)
  \/ \E p \in Callers : LoadCacheDone(p)
  \/ \E p \in Callers : GetLatencyMap(p)
  \/ \E p \in Callers : GetFastestRpc(p)
  \/ \E p \in Callers : CheckCache(p)
  \/ \E j \in 1..Len(probes) :
       \E results \in [1..Len(probes[j].urls) -> ProbeOutcomes] :
         TestRpcUrlsDone(j, results)
  \/ \E p \in Callers : AwaitShared(p)
  \/ \E p \in Callers : AwaitOwn(p)
  \/ \E p \in Callers : UpdateChainCache(p)
  \/ \E p \in Callers : KvSet(p)
  \/ \E p \in Callers : Finally(p)
  \/ \E p \in Callers : Ranked(p)
  \/ \E p \in Callers, response \in CacheResponses : ExecuteRpcCall(p, response)
  \/ \E p \in Callers : SingleSettled(p)
  \/ \E p \in Callers : BatchItemSettled(p)
  \/ BatchRespond

SpecHttp == Init /\ [][NextHttp]_vars

\* ------------------------------------------------- runs of the prober
\* testSingleRpc for every way its two calls can end
NextProbe ==
  \/ \E getCode \in GetCodeOutcomes, syncing \in SyncingOutcomes, first \in {1, 2} :
       TestSingleRpc(getCode, syncing, first)
  \/ TestSingleRpcRejected

SpecProbe == Init /\ [][NextProbe]_vars

\* ------------------------------------------ runs of testRpcUrls, url by url
\* testRpcUrls on lists of up to MaxUrls urls, a url more than once
\* included; the testSingleRpc of every url ends on its own, with a timeout,
\* a non-2xx reply or a body, or throws.
MaxUrls == 3

RunUrls == UNION {[1..n -> {"A", "B"}] : n \in 0..MaxUrls}

RunGetCodeOutcomes ==
  {o \in GetCodeOutcomes :
     /\ o.kind \in {"abort", "http", "json"}
     /\ o.kind # "abort" => o.at = 0
     /\ o.body \in {"none", "permit2", "other_code"}}

RunSyncingOutcomes ==
  {o \in SyncingOutcomes :
     /\ o.kind \in {"abort", "json"}
     /\ o.kind # "abort" => o.at = 0
     /\ o.body \in {"none", "false", "not_false"}}

NextProbeRun ==
  \/ \E urls \in RunUrls : TestRpcUrls(urls)
  \/ \E i \in 1..MaxUrls, getCode \in RunGetCodeOutcomes,
         syncing \in RunSyncingOutcomes :
       TaskFulfilled(i, getCode, syncing, 1)
  \/ \E i \in 1..MaxUrls : TaskRejected(i)
  \/ TestRpcUrlsReturns

SpecProbeRun == Init /\ [][NextProbeRun]_vars

\* ------------------------------------------------- runs on a failing KV
\* One caller, one call after the other, on a KV that is empty or holds an
\* entry of chain 1, and whose kv.get and kv.set may fail.
MaxKvCalls == 2

NextKv ==
  \/ \E c \in ChainIds : StartCall(1, c, MaxKvCalls)
  \/ KvGet(1)
  \/ KvGetFailed(1)
  \/ LoadCacheDone(1)
  \/ GetLatencyMap(1)
  \/ GetFastestRpc(1)
  \/ CheckCache(1)
  \/ \E j \in 1..Len(probes) :
       \E results \in [1..Len(probes[j].urls) -> ProbeOutcomes] :
         TestRpcUrlsDone(j, results)
  \/ AwaitOwn(1)
  \/ UpdateChainCache(1)
  \/ KvSet(1)
  \/ KvSetFailed(1)
  \/ Finally(1)
  \/ Ranked(1)
  \/ \E response \in {"result", "http_error"} : ExecuteRpcCall(1, response)
  \/ Return(1)

SpecKv == InitRace /\ [][NextKv]_vars

\* --------------------------------------------- two managers in one process
\* Caller p calls getRankedRpcList of the selector of manager p.  Each
\* manager has its own data source, cache manager and tester; the module
\* of the selector, and with it ongoingLatencyTests, is loaded once.  Both
\* managers were made with disableCache, so that their cache managers hold
\* nothing and take no part.
MaxSelectorCalls == 3

\* initialRpcData of the second manager
OtherWhitelistData == <<[chainId |-> 1, rpcUrls |-> <<"C", "B">>]>>

\* this.dataSource of the selector that caller p calls
SelectorWhitelist(p) == IF p = 1 THEN WhitelistData ELSE OtherWhitelistData

CheckCacheOfSelector(p) ==
  CheckCacheWith(p, getRpcUrlsFrom(SelectorWhitelist(p), ChainOf(p)))

\* getRankedRpcList returns rankedList to its caller
RankedListReturned(p) ==
  /\ pc[p] = "ranked"
  /\ pc' = [pc EXCEPT ![p] = "idle"]
  /\ call' = [call EXCEPT ![p] = NoCall]
  /\ latencyMap' = [latencyMap EXCEPT ![p] = Null]
  /\ fastest' = [fastest EXCEPT ![p] = Null]
  /\ testPromise' = [testPromise EXCEPT ![p] = 0]
  /\ rankedList' = [rankedList EXCEPT ![p] = <<>>]
  /\ UNCHANGED <<cacheVars, now, singleRpc, probeRun, kvErrors, http, reads, ongoing, probes,
                 sendVars, snap, outcome, started>>
  /\ MicrotaskStep

InitSelectors == InitCache /\ disabled /\ IsNull(kvStore)

NextSelectors ==
  \/ \E p \in Callers, c \in ChainIds : StartCall(p, c, MaxSelectorCalls)
  \/ \E p \in Callers : GetLatencyMap(p)
  \/ \E p \in Callers : CheckCacheOfSelector(p)
  \/ \E j \in 1..Len(probes) :
       \E results \in [1..Len(probes[j].urls) -> ProbeOutcomes] :
         TestRpcUrlsDone(j, results)
  \/ \E p \in Callers : AwaitShared(p)
  \/ \E p \in Callers : AwaitOwn(p)
  \/ \E p \in Callers : Finally(p)
  \/ \E p \in Callers : RankedListReturned(p)

SpecSelectors == InitSelectors /\ [][NextSelectors]_vars

\* --------------------------------------------- runs in which I/O completes
\* Two callers on chain 1 with the clock running.  Every continuation that
\* is queued runs; the KV answers kv.get and kv.set; every test of the urls
\* ends, each of its calls with a reply or at its deadline; every upstream
\* call ends with a reply or at its deadline.
NextLive ==
  \/ \E p \in Callers : StartCall(p, 1, MaxRaceCalls)
  \/ Tick(CacheTtlMs)
  \/ \E p \in Callers : KvGet(p)
  \/ \E p \in Callers : LoadCacheDone(p)
  \/ \E p \in Callers : GetLatencyMap(p)
  \/ \E p \in Callers : GetFastestRpc(p)
  \/ \E p \in Callers : CheckCache(p)
  \/ \E j \in 1..Len(probes) :
       \E results \in [1..Len(probes[j].urls) -> ProbeOutcomes] :
         TestRpcUrlsDone(j, results)
  \/ \E p \in Callers : AwaitShared(p)
  \/ \E p \in Callers : AwaitOwn(p)
  \/ \E p \in Callers : UpdateChainCache(p)
  \/ \E p \in Callers : KvSet(p)
  \/ \E p \in Callers : Finally(p)
  \/ \E p \in Callers : Ranked(p)
  \/ \E p \in Callers, response \in {"result", "http_error"} :
       ExecuteRpcCall(p, response)
  \/ \E p \in Callers : Return(p)

\* what a caller waits for from outside: the answer of the KV to its
\* kv.get, and the end of its upstream call
Completion(p) ==
  \/ KvGet(p) \/ LoadCacheDone(p)
  \/ \E response \in {"result", "http_error"} : ExecuteRpcCall(p, response)

\* the j-th test of the urls ends
TestCompletion(j) ==
  /\ j \in 1..Len(probes)
  /\ \E results \in [1..Len(probes[j].urls) -> ProbeOutcomes] :
       TestRpcUrlsDone(j, results)

SpecLive ==
  /\ InitRace /\ [][NextLive]_vars
  /\ \A p \in Callers : WF_vars(Continuation(p)) /\ WF_vars(Completion(p))
  /\ \A j \in 1..MaxRaceCalls : WF_vars(TestCompletion(j))

\* ------------------------------------------------------------------ claims
ProbesOf(chainId) == {j \in 1..Len(probes) : probes[j].chainId = chainId}

\* C1: for the calls of a burst on a cold chain (every call started before
\* any probe of the chain had completed), testRpcUrls is invoked at most
\* once for the chain.
C1_SingleFlightBurst ==
  \A c \in ChainIds : Cardinality({j \in ProbesOf(c) : probes[j].burst}) <= 1

\* the calls that have their ranked list
HasList(p) == pc[p] \in {"ranked", "attempt", "done"}
\* the sends that are in or past their attempt loop
InLoop(p) == pc[p] \in {"attempt", "done"} /\ Len(rankedList[p]) > 0
Succeeded(a) == executeRpcCall(a.response).ok
NoDuplicates(s) == \A i, j \in 1..Len(s) : s[i] = s[j] => i = j

\* C2: a send with start index s attempts list[(s+k) mod n], k = 0, 1, ...,
\* one after the other, each only after the one before it failed; it returns
\* the result of the first attempt that succeeds and attempts nothing more.
C2_FailoverOrder ==
  \A p \in Callers : InLoop(p) =>
    LET n == Len(rankedList[p])
        a == attempts[p]
    IN /\ \A k \in 1..Len(a) :
            a[k].url = rankedList[p][((startIndex[p] + (k - 1)) % n) + 1]
       /\ \A k \in 1..(Len(a) - 1) : ~Succeeded(a[k])
       /\ (Len(a) > 0 /\ Succeeded(a[Len(a)])) =>
            /\ pc[p] = "done"
            /\ outcome[p] = [type |-> "result",
                             value |-> executeRpcCall(a[Len(a)].response).value]
       /\ outcome[p].type = "result" => Len(a) > 0 /\ Succeeded(a[Len(a)])

C2_Witness ==
  \E p \in Callers :
    /\ pc[p] = "done" /\ outcome[p].type = "result"
    /\ Len(rankedList[p]) = 3 /\ Len(attempts[p]) = 3 /\ startIndex[p] = 2

\* C3: a send fails with AllEndpointsFailed exactly when all n urls of its
\* list were attempted and every attempt failed; the error it carries is the
\* one of the last url attempted, list[(s+n-1) mod n]; when some attempt
\* succeeds the send succeeds.
C3_AllEndpointsFailed ==
  \A p \in Callers : (pc[p] = "done" /\ Len(rankedList[p]) > 0) =>
    LET n == Len(rankedList[p])
        a == attempts[p]
    IN /\ outcome[p].type = "AllFailed" <=>
            (Len(a) = n /\ \A k \in 1..n : ~Succeeded(a[k]))
       /\ outcome[p].type = "AllFailed" =>
            /\ a[n].url = rankedList[p][((startIndex[p] + n - 1) % n) + 1]
            /\ outcome[p].value = executeRpcCall(a[n].response).value
            /\ {a[k].url : k \in 1..n} = Range(rankedList[p])
       /\ (\E k \in 1..Len(a) : Succeeded(a[k])) => outcome[p].type = "result"

C3_Witness ==
  \E p, q \in Callers :
    /\ p # q /\ pc[p] = "done" /\ pc[q] = "attempt"
    /\ outcome[p].type = "AllFailed" /\ Len(attempts[p]) = 2
    /\ attempts[p][1].response # attempts[p][2].response
    /\ startIndex[p] = 1

\* C4: a send whose ranked list is empty fails with NoEndpoints and makes no
\* upstream call.
C4_NoEndpoints ==
  \A p \in Callers : (pc[p] \in {"attempt", "done"} /\ Len(rankedList[p]) = 0) =>
    /\ pc[p] = "done"
    /\ outcome[p].type = "NoEndpoints"
    /\ attempts[p] = <<>>

C4_Witness ==
  \E p \in Callers :
    /\ pc[p] = "done" /\ outcome[p].type = "NoEndpoints"
    /\ ~IsNull(latencyMap[p]) /\ Len(Val(latencyMap[p])) = 2

\* C5: sends of a chain that follow one another on lists of the same length
\* n >= 2 start at i0, i0+1, i0+2, ... (mod n); the first send of a chain
\* starts at index 0.
C5_RoundRobin ==
  \A c \in ChainIds :
    /\ Len(rrLog[c]) > 0 => rrLog[c][1].startIndex = 0
    /\ \A j \in 1..(Len(rrLog[c]) - 1) :
         (rrLog[c][j].n = rrLog[c][j + 1].n /\ rrLog[c][j].n >= 2) =>
           rrLog[c][j + 1].startIndex = (rrLog[c][j].startIndex + 1) % rrLog[c][j].n

C5_Witness ==
  \E c \in ChainIds :
    /\ Len(rrLog[c]) = 3
    /\ \A j \in 1..3 : rrLog[c][j].n = 3 /\ rrLog[c][j].startIndex = j - 1

\* C6: within one send every url of the ranked list is attempted at most
\* once: the list holds no url twice and the send makes at most n attempts,
\* all at different urls.
C6_NoRetry ==
  \A p \in Callers : HasList(p) =>
    /\ NoDuplicates(rankedList[p])
    /\ Len(attempts[p]) <= Len(rankedList[p])
    /\ NoDuplicates([k \in 1..Len(attempts[p]) |-> attempts[p][k].url])

C6_Witness ==
  \E p \in Callers :
    /\ pc[p] = "done" /\ outcome[p].type = "AllFailed" /\ Len(attempts[p]) = 2
    /\ testPromise[p] # 0 /\ Len(probes[testPromise[p]].urls) = 3

\* C7: at most one probe run is in flight per chain: a probe that has not
\* completed is the one registered for its chain in ongoingLatencyTests.
C7_OneProbePerChain ==
  \A j \in 1..Len(probes) : ~probes[j].settled => ongoing[probes[j].chainId] = j

\* probes of two chains in flight at the same time
C7_Witness ==
  \E i, j \in 1..Len(probes) :
    /\ probes[i].chainId # probes[j].chainId
    /\ ~probes[i].settled /\ ~probes[j].settled

\* C8: the caller that started a probe run and every caller that awaited it
\* return the same ranked list.
C8_SharedProbeSameList ==
  \A j \in 1..Len(probes) : \A x, y \in probes[j].served : x.list = y.list

C8_Witness ==
  \E j \in 1..Len(probes) : \E x, y \in probes[j].served :
    x.role = "own" /\ y.role = "shared" /\ Len(x.list) = 2

StatusRank(status) ==
  CASE status = "ok" -> 0 [] status = "wrong_bytecode" -> 1
    [] status = "syncing" -> 2 [] OTHER -> 3

\* C9: in a returned list, adjacent urls a, b have the status of a strictly
\* before the status of b in (ok, wrong_bytecode, syncing), or the same
\* status and latency(a) <= latency(b).
C9_RankingMonotone ==
  \A p \in Callers : (HasList(p) /\ ~IsNull(latencyMap[p])) =>
    \A k \in 1..(Len(rankedList[p]) - 1) :
      LET m == Val(latencyMap[p])
          a == MapGet(m, rankedList[p][k])
          b == MapGet(m, rankedList[p][k + 1])
      IN \/ StatusRank(a.status) < StatusRank(b.status)
         \/ a.status = b.status /\ a.latency <= b.latency

\* an ok url ranks before a faster syncing one
C9_Witness ==
  \E p \in Callers :
    /\ pc[p] = "ranked" /\ ~IsNull(latencyMap[p]) /\ Len(rankedList[p]) = 3
    /\ LET m == Val(latencyMap[p])
       IN /\ MapGet(m, rankedList[p][1]).status = "ok"
          /\ MapGet(m, rankedList[p][1]).latency = 1
          /\ MapGet(m, rankedList[p][2]).status = "wrong_bytecode"
          /\ MapGet(m, rankedList[p][3]).status = "syncing"
          /\ MapGet(m, rankedList[p][3]).latency = 0

\* C10: a returned list holds exactly the urls of the probe map whose status
\* is ok, wrong_bytecode or syncing, each once; a url with another status is
\* not in it and no send calls it.
C10_OnlyAcceptable ==
  \A p \in Callers : (HasList(p) /\ ~IsNull(latencyMap[p])) =>
    LET m == Val(latencyMap[p])
    IN /\ Range(rankedList[p]) =
            {r.url : r \in {x \in Range(m) :
                              x.status \in {"ok", "wrong_bytecode", "syncing"}}}
       /\ NoDuplicates(rankedList[p])
       /\ \A k \in 1..Len(attempts[p]) :
            /\ MapHas(m, attempts[p][k].url)
            /\ MapGet(m, attempts[p][k].url).status \notin
                 {"timeout", "http_error", "rpc_error", "network_error"}

C10_Witness ==
  \E p \in Callers :
    /\ pc[p] = "done" /\ outcome[p].type = "AllFailed" /\ ~IsNull(latencyMap[p])
    /\ Len(rankedList[p]) = 1
    /\ {r.status : r \in Range(Val(latencyMap[p]))} = {"syncing", "http_error", "rpc_error"}

\* C15: every result of the prober, the one made up for a rejected task
\* included, has a measured latency (0 <= latency < Infinity) when its status
\* is ok, wrong_bytecode or syncing, and latency Infinity when its status is
\* timeout, http_error, rpc_error or network_error.
C15_ProbeResultWellFormed ==
  singleRpc.kind # "none" =>
    LET r == singleRpc.result
    IN /\ r.status \in {"ok", "wrong_bytecode", "syncing"} =>
            r.latency \in 0..TimeoutMs /\ r.latency < Infinity
       /\ r.status \in {"timeout", "http_error", "rpc_error", "network_error"} =>
            r.latency = Infinity
       /\ r.status \in LatencyTestStatus

C15_Witness ==
  /\ singleRpc.kind = "fulfilled"
  /\ singleRpc.result = [status |-> "syncing", latency |-> TimeoutMs]
  /\ singleRpc.getCode.at = 0

\* C16: hard failures are classified by priority: a deadline that fires on
\* either call gives timeout, whatever the other call did and whichever
\* ended first; otherwise a transport failure on either call gives
\* network_error; otherwise a non-2xx reply on either call gives http_error.
C16_ClassificationByPriority ==
  singleRpc.kind = "fulfilled" =>
    LET g == singleRpc.getCode
        y == singleRpc.syncing
        status == singleRpc.result.status
    IN /\ (g.kind = "abort" \/ y.kind = "abort") => status = "timeout"
       /\ (g.kind # "abort" /\ y.kind # "abort"
           /\ (g.kind = "network" \/ y.kind = "network")) => status = "network_error"
       /\ ({g.kind, y.kind} \subseteq {"http", "json"} /\ {g.kind, y.kind} # {"json"})
            => status = "http_error"

\* the entry the cache holds for the chain
StoredEntry(c) == Val(cache[c])
HasEntry(c) == c \in AllChainIds /\ ~IsNull(cache[c])
EntryFresh(c) == now - StoredEntry(c).lastTested < CacheTtlMs
\* the status the stored map has for the stored fastest url, "" for none
FastestStatus(c) ==
  LET e == StoredEntry(c)
      hits == {i \in 1..Len(e.latencyMap) :
                 ~IsNull(e.fastestRpc) /\ e.latencyMap[i].url = Val(e.fastestRpc)}
  IN IF hits = {} THEN "" ELSE e.latencyMap[CHOOSE i \in hits : TRUE].status
StoredEntryValid(c) ==
  /\ HasEntry(c)
  /\ EntryFresh(c)
  /\ FastestStatus(c) \in {"ok", "wrong_bytecode", "syncing"}
\* the steps of getRankedRpcList up to its decision on the cache
Deciding(p) == pc[p] \in {"getLatencyMap", "getFastestRpc", "check"}

HardFailures == {"timeout", "http_error", "rpc_error", "network_error"}
\* the stored entry is what a probe run without a usable url leaves behind
AllFailedEntry(c) ==
  /\ HasEntry(c)
  /\ IsNull(StoredEntry(c).fastestRpc)
  /\ StoredEntry(c).latencyMap # <<>>
  /\ \A i \in 1..Len(StoredEntry(c).latencyMap) :
       StoredEntry(c).latencyMap[i].status \in HardFailures

\* C12: once a probe run of the chain has ended with a hard failure for
\* every url and the entry written for it (fastestRpc = null) is still
\* within its TTL, no later call for the chain starts a probe again.
C12_NullFastestReused ==
  \A p \in Callers :
    ~ /\ pc[p] = "awaitOwn"
      /\ AllFailedEntry(ChainOf(p))
      /\ EntryFresh(ChainOf(p))
      /\ \E j \in 1..(testPromise[p] - 1) :
           probes[j].chainId = ChainOf(p) /\ probes[j].settled

\* the stored entry is fresh, but its fastestRpc is missing in its
\* latencyMap or has a status that is not acceptable
DroppedTier(c) ==
  /\ HasEntry(c)
  /\ EntryFresh(c)
  /\ ~IsNull(StoredEntry(c).fastestRpc)
  /\ FastestStatus(c) \notin {"ok", "wrong_bytecode", "syncing"}

Whitelisted(c) ==
  \E i \in 1..Len(WhitelistData) :
    WhitelistData[i].chainId = c /\ WhitelistData[i].rpcUrls # <<>>

\* C14: with the cache disabled, every call for a chain with whitelisted
\* urls starts a probe run of its own and ranks the results of that run:
\* two calls, one after the other, make two runs, and nothing is stored
\* that the second could reuse.
C14_DisabledAlwaysProbes ==
  /\ [](disabled =>
          /\ cache = EmptyRoot
          /\ \A p \in Callers : (HasList(p) /\ Whitelisted(ChainOf(p))) =>
               /\ testPromise[p] # 0
               /\ latencyMap[p] = Some(probes[testPromise[p]].result)
               /\ rankedList[p] = rankResults(latencyMap[p]))
  /\ [][\A p \in Callers :
          (disabled /\ pc[p] = "check" /\ Whitelisted(ChainOf(p))
           /\ pc'[p] # pc[p]) =>
            /\ pc'[p] = "awaitOwn"
            /\ Len(probes') = Len(probes) + 1
            /\ testPromise'[p] = Len(probes')
            /\ ~probes'[Len(probes')].settled]_vars

C14_Witness ==
  /\ disabled /\ started = 2 /\ pc[1] = "ranked" /\ testPromise[1] = 2
  /\ probes[1].chainId = 1 /\ probes[1].settled
  /\ probes[2].chainId = 1 /\ probes[2].settled
  /\ rankedList[1] = <<"B", "A">>

\* the result field of the body of a 2xx reply without error
BodyResult(response) == IF response = "null_result" THEN "null" ELSE "0x64"

\* C17: when an attempt gets a 2xx reply whose body has a result and no
\* error, the send ends with that attempt and returns exactly the value of
\* the result field, JSON null included.
C17_ResultPassthrough ==
  \A p \in Callers : \A k \in 1..Len(attempts[p]) :
    attempts[p][k].response \in {"result", "null_result"} =>
      /\ k = Len(attempts[p])
      /\ pc[p] = "done"
      /\ outcome[p] = [type |-> "result",
                       value |-> BodyResult(attempts[p][k].response)]

\* a null result returned by the second url after the first failed
C17_Witness ==
  /\ pc[1] = "done" /\ Len(attempts[1]) = 2
  /\ attempts[1][2].response = "null_result"
  /\ outcome[1] = [type |-> "result", value |-> "null"]

\* C18: a 2xx reply whose body has neither result nor error is a failed
\* attempt: the send does not return with it as a success.
C18_MalformedResponseFails ==
  \A p \in Callers : \A k \in 1..Len(attempts[p]) :
    attempts[p][k].response = "no_result" =>
      ~(k = Len(attempts[p]) /\ outcome[p].type = "result")

\* C20: for a chain without whitelisted urls (an entry without urls, or no
\* entry) and without a cache entry, a call starts no probe, registers no
\* test, writes neither the cache nor the KV, and gets the empty list.
C20_EmptyWhitelist ==
  /\ [](/\ \A c \in AllChainIds : ~Whitelisted(c) =>
             /\ ProbesOf(c) = {} /\ ongoing[c] = 0
             /\ cache[c] = Null
             /\ ~IsNull(kvStore) => Val(kvStore)[c] = Null
        /\ \A p \in Callers : (HasList(p) /\ ~Whitelisted(ChainOf(p))) =>
             rankedList[p] = <<>> /\ testPromise[p] = 0)
  /\ [][\A p \in Callers :
          (pc[p] \notin {"idle", "loaded"} /\ ~Whitelisted(ChainOf(p))
           /\ pc'[p] # pc[p]) =>
            /\ cache' = cache /\ kvStore' = kvStore
            /\ probes' = probes /\ ongoing' = ongoing]_vars

\* the chain with an entry without urls, asked for after a call that probed
C20_Witness ==
  /\ pc[1] = "done" /\ ChainOf(1) = 3 /\ started = 2
  /\ outcome[1].type = "NoEndpoints" /\ attempts[1] = <<>>
  /\ Len(probes) = 1 /\ ~IsNull(kvStore)

\* C19: an attempt of send that fails leaves the cache, the KV and
\* ongoingLatencyTests as they are and starts no probe; from the return of
\* getRankedRpcList on the send keeps its list and takes the urls it calls
\* from it, whatever the cache holds by then.
C19_FailedAttemptFrame ==
  [][\A p \in Callers :
       /\ (pc[p] = "attempt" /\ attempts'[p] # attempts[p]
           /\ ~Succeeded(attempts'[p][Len(attempts'[p])])) =>
            /\ cache' = cache /\ kvStore' = kvStore /\ cacheLoaded' = cacheLoaded
            /\ ongoing' = ongoing /\ probes' = probes
       /\ (pc[p] \in {"ranked", "attempt"} /\ pc'[p] \in {"attempt", "done"}) =>
            /\ rankedList'[p] = rankedList[p]
            /\ \A k \in 1..Len(attempts'[p]) :
                 attempts'[p][k].url \in Range(rankedList[p])]_vars

\* a send that goes on after a failed attempt while the cache holds an
\* entry with another ranking than the list the send has
C19_Witness ==
  \E p \in Callers :
    /\ pc[p] = "attempt" /\ Len(attempts[p]) = 1
    /\ HasEntry(ChainOf(p))
    /\ rankResults(Some(StoredEntry(ChainOf(p)).latencyMap)) # rankedList[p]

\* the request that is handled or was answered last is a batch of valid
\* objects
ValidBatch ==
  /\ http.state # "idle"
  /\ http.body.batch
  /\ Len(http.body.items) > 0
  /\ \A i \in 1..Len(http.body.items) : isValidJsonRpcRequest(http.body.items[i])

\* the response object r answers request req whose send ended with o
AnswersSend(r, req, o, chainId) ==
  /\ r.id = req.id
  /\ IF o.type = "result"
     THEN /\ IsNull(r.error)
          /\ r.result = IF o.value = "undefined" THEN Null ELSE Some(o.value)
     ELSE /\ IsNull(r.result)
          /\ ~IsNull(r.error)
          /\ Val(r.error).code = -32000

\* C21: for a valid batch of k requests send runs once for each of them,
\* the response is an array of k objects, the i-th with the id of the i-th
\* request; the object of an item is an error object exactly when the send
\* of that item failed, it carries the result of the send otherwise, and
\* it leaves the objects of the other items as they are.
C21_BatchResponses ==
  /\ [](ValidBatch =>
          LET k == Len(http.body.items)
          IN IF http.state = "pending"
             THEN \A p \in Callers :
                    (pc[p] # "idle") = (p <= k /\ IsNull(http.responses[p]))
             ELSE /\ http.array
                  /\ Len(http.objects) = k
                  /\ \A i \in 1..k : http.objects[i].id = http.body.items[i].id)
  /\ [][\A p \in Callers :
          ValidBatch /\ pc[p] = "done" /\ pc'[p] = "idle" =>
            /\ ~IsNull(http'.responses[p])
            /\ AnswersSend(Val(http'.responses[p]), http.body.items[p],
                           outcome[p], http.chainId)
            /\ \A q \in 1..Len(http.responses) :
                 q # p => http'.responses[q] = http.responses[q]]_vars

\* a batch of two was answered with the error of the first item and the
\* result of the second
C21_Witness ==
  /\ ValidBatch
  /\ http.state = "responded"
  /\ Len(http.objects) = 2
  /\ ~IsNull(http.objects[1].error)
  /\ http.objects[2].result = Some("0x64")
  /\ http.objects[1].id # http.objects[2].id

\* the response object is an error object with code -32000
InternalError(r) == ~IsNull(r.error) /\ Val(r.error).code = -32000

\* the error message of the object without "Internal Server Error: "
CoreMessage(r) == SubSeq(Val(r.error).message, 2, Len(Val(r.error).message))

\* a send that ends with NoEndpoints or AllEndpointsFailed is answered with
\* an error object of code -32000 whose message holds the message of the
\* error, the chainId in it
SendErrorPresented ==
  \A p \in Callers :
    /\ http.state = "pending"
    /\ pc[p] = "done" /\ pc'[p] = "idle"
    /\ outcome[p].type \in {"NoEndpoints", "AllFailed"}
    => LET r == IF http.body.batch THEN Val(http'.responses[p])
                ELSE http'.objects[1]
       IN /\ InternalError(r)
          /\ Val(r.error).message[1] = "Internal Server Error: "
          /\ CoreMessage(r) = ErrorMessage(outcome[p], http.chainId)
          /\ CoreMessage(r)[2] = ToString(http.chainId)

\* C22 as stated: a send that fails with NoEndpoints or AllEndpointsFailed
\* is presented as an error object of code -32000 with the message of the
\* error, and the response has status 500, for a request sent alone and
\* for one in a batch.
C22_Status500Everywhere ==
  /\ [](http.state = "responded"
          /\ (\E i \in 1..Len(http.objects) : InternalError(http.objects[i]))
          => http.status = 500)
  /\ [][SendErrorPresented]_vars

\* C22 amended: the error object is as stated in both branches; the status
\* is 500 for a request sent alone and 200 for a batch, whatever its items
\* ended with.
C22_SendErrorPresentation ==
  /\ [](http.state = "responded"
          /\ (\E i \in 1..Len(http.objects) : InternalError(http.objects[i]))
          => http.status = IF http.array THEN 200 ELSE 500)
  /\ [][SendErrorPresented]_vars

\* a request sent alone was answered 500 with AllEndpointsFailed
C22_Witness ==
  /\ http.state = "responded"
  /\ ~http.array
  /\ http.status = 500
  /\ InternalError(http.objects[1])
  /\ CoreMessage(http.objects[1])[1] = "All available RPC endpoints failed for chainId "

\* updateChainCache has stored an entry for the chain and no call of it is
\* still on its way: the entry is in this.cache and kv.set has completed
PutCompleted(c) ==
  /\ ~IsNull(cache[c])
  /\ \A p \in Callers : ChainOf(p) = c => pc[p] \notin {"update", "kvSet", "finally"}

\* C23: once updateChainCache has completed for a chain, this.cache holds
\* the entry it stored (so a raw read returns its latencyMap and its
\* fastestRpc) until updateChainCache stores the next entry of the chain,
\* whatever loads of the cache from the KV and updates of other chains
\* run meanwhile.
C23_ReadYourWrite ==
  [][\A c \in ChainIds :
       PutCompleted(c) /\ cache'[c] # cache[c] =>
         \E p \in Callers :
           /\ ChainOf(p) = c
           /\ pc[p] = "update" /\ pc'[p] = "kvSet"
           /\ cache'[c] = Some(NewChainCache(latencyMap[p], now))]_vars

\* C24: when getRankedRpcList finds the cache valid, the latencyMap and the
\* fastestRpc it decided on were read from one and the same cache entry.
C24_NoTornRead ==
  \A p \in Callers :
    pc[p] = "check" /\ CacheValid(latencyMap[p], fastest[p]) =>
      reads[p].latencyMap = reads[p].fastestRpc

\* the entry has the fastestRpc that the ranking of its latencyMap gives:
\* its first url, or null when it is empty
FastestIsFirstRanked(entry) ==
  LET ranking == rankResults(Some(entry.latencyMap))
  IN entry.fastestRpc = IF ranking = <<>> THEN Null ELSE Some(ranking[1])

\* C25: in every entry the selector stored, in this.cache and in the KV,
\* fastestRpc is the first url of the ranking of the latencyMap stored with
\* it, ties going to the url tested first, and null exactly when the
\* ranking is empty.
C25_FastestIsFirstRanked ==
  \A c \in AllChainIds :
    /\ ~IsNull(cache[c]) => FastestIsFirstRanked(Val(cache[c]))
    /\ ~IsNull(kvStore) /\ ~IsNull(Val(kvStore)[c]) =>
         FastestIsFirstRanked(Val(Val(kvStore)[c]))

\* the caller has just stored the map of its test, in which both urls came
\* out ok with the same latency
C25_Witness ==
  \E p \in Callers :
    /\ pc[p] = "kvSet"
    /\ LET entry == Val(cache[ChainOf(p)])
       IN /\ Len(entry.latencyMap) = 2
          /\ \A i \in 1..2 : entry.latencyMap[i].status = "ok"
          /\ entry.latencyMap[1].latency = entry.latencyMap[2].latency
          /\ entry.fastestRpc = Some(entry.latencyMap[1].url)

\* the caller that started the test has left its finally block
OwnerServed(j) == \E r \in probes[j].served : r.role = "own"

\* C26: the map of one test is stored by updateChainCache once: by the
\* caller that started the test, after the test completed; a caller that
\* awaited the test in progress goes on to the ranking and stores nothing.
C26_OneWritePerProbe ==
  /\ [](\A j \in 1..Len(probes) :
          /\ probes[j].writes <= 1
          /\ probes[j].writes = 1 => probes[j].settled /\ ~probes[j].failed
          /\ OwnerServed(j) /\ ~probes[j].failed => probes[j].writes = 1)
  /\ [][\A p \in Callers :
          /\ pc'[p] = "awaitOwn" /\ pc[p] # "awaitOwn" =>
               /\ probes' = Append(probes, NewProbe(ChainOf(p), getRpcUrls(ChainOf(p)),
                                                     call[p].burst))
               /\ testPromise'[p] = Len(probes')
          /\ pc'[p] = "update" /\ pc[p] # "update" =>
               pc[p] = "awaitOwn" /\ probes[testPromise[p]].settled
          /\ pc[p] = "update" /\ pc'[p] # "update" =>
               /\ cache'[ChainOf(p)] = Some(NewChainCache(latencyMap[p], now))
               /\ latencyMap[p] = Some(probes[testPromise[p]].result)
          /\ pc[p] = "awaitShared" =>
               /\ pc'[p] \in {"awaitShared", "ranked", "done"}
               /\ pc'[p] # "awaitShared" => cache' = cache /\ kvStore' = kvStore]_vars

\* a test served the caller that started it and a caller that awaited it,
\* and its map was stored once
C26_Witness ==
  \E j \in 1..Len(probes) :
    /\ probes[j].writes = 1
    /\ OwnerServed(j)
    /\ \E r \in probes[j].served : r.role = "shared"

\* C27: an entry of ongoingLatencyTests whose test has completed, with a
\* map or with an error, is removed in the end (kv.set of the cache write
\* completing).
C27_Deregistration ==
  \A c \in {1} : \A j \in 1..MaxRaceCalls :
    (ongoing[c] = j /\ probes[j].settled) ~> (ongoing[c] # j)

\* a test that ended with an error is still registered
C27_Witness ==
  \E c \in AllChainIds :
    /\ ongoing[c] # 0
    /\ probes[ongoing[c]].settled
    /\ probes[ongoing[c]].failed

\* the caller has its await of the test behind it
PastAwait(p) == testPromise[p] # 0 /\ pc[p] \notin {"awaitOwn", "awaitShared"}

\* C28: when the test ended with an error, every caller that awaited it,
\* the one that started it and the ones that found it in progress, goes on
\* with an empty map and an empty list; none of them throws the error.
C28_ProbeErrorGivesEmptyList ==
  \A p \in Callers :
    PastAwait(p) /\ probes[testPromise[p]].failed =>
      /\ outcome[p] # ProbeError
      /\ latencyMap[p] = Some(<<>>)
      /\ rankedList[p] = <<>>

\* the send of the caller is in its attempt loop or has left it
InSend(p) == pc[p] \in {"attempt", "done"} /\ outcome[p].type # "ProbeError"

\* C29: rpcIndexMap of a chain is set by a send once, when the send has its
\* list and before its first upstream call: a step sets it exactly when a
\* send of the chain enters its attempt loop, the loop is entered once, and
\* no upstream call of the loop sets it.
C29_AdvancedOncePerSend ==
  [][/\ \A c \in ChainIds :
          rrLog'[c] # rrLog[c] \/ rpcIndexMap'[c] # rpcIndexMap[c] =>
            \E p \in Callers :
              /\ ChainOf(p) = c
              /\ pc[p] = "ranked" /\ pc'[p] = "attempt"
              /\ attempts[p] = <<>> /\ attempts'[p] = <<>>
              /\ Len(rrLog'[c]) = Len(rrLog[c]) + 1
              /\ rpcIndexMap'[c] = (rpcIndexMap[c] + 1) % Len(rankedList[p])
     /\ \A p \in Callers :
          /\ pc'[p] = "attempt" /\ pc[p] # "attempt" =>
               /\ pc[p] = "ranked"
               /\ Len(rrLog'[ChainOf(p)]) = Len(rrLog[ChainOf(p)]) + 1
          /\ pc[p] = "attempt" => pc'[p] \in {"attempt", "done"}
          /\ attempts'[p] # attempts[p] /\ attempts'[p] # <<>> =>
               InSend(p) /\ rrLog' = rrLog /\ rpcIndexMap' = rpcIndexMap]_vars

\* a send fell back to the second url of its list: the index of its chain
\* was set once
C29_Witness ==
  \E p \in Callers :
    /\ pc[p] = "done"
    /\ Len(attempts[p]) = 2
    /\ Len(rrLog[ChainOf(p)]) = 1
    /\ rpcIndexMap[ChainOf(p)] = 1

\* C30: each send reads the index that the send before it on the chain
\* stored (the first one reads 0), and of two sends whose updates follow one
\* another, each with a list of more than one url, the second starts at
\* another index than the first.
C30_AtomicRoundRobin ==
  \A c \in ChainIds :
    /\ rrLog[c] # <<>> => rrLog[c][1].currentIndex = 0
    /\ \A k \in 1..(Len(rrLog[c]) - 1) :
         LET a == rrLog[c][k]
             b == rrLog[c][k + 1]
         IN /\ b.currentIndex = NextRpcIndex(a.currentIndex, a.n)
            /\ a.n > 1 /\ b.n > 1 => a.startIndex # b.startIndex

\* two sends of one chain are in their attempt loops at the same time,
\* on lists of two urls, at different start indices
C30_Witness ==
  \E p, q \in Callers :
    /\ p # q
    /\ ChainOf(p) = ChainOf(q)
    /\ pc[p] = "attempt" /\ pc[q] = "attempt"
    /\ Len(rankedList[p]) = 2 /\ Len(rankedList[q]) = 2
    /\ startIndex[p] # startIndex[q]

\* the entry that the getChainCache of caller p found stored, and its age
FreshReadSaw(p) == reads[p].fastestRpc
AgeSeen(p) == now - Val(FreshReadSaw(p)).lastTested

\* C31: getChainCache gives the stored entry of the chain exactly when
\* now - lastTested < TTL (getFastestRpc hands on its fastestRpc), and null
\* for an entry of age TTL or more; a call whose read found such an entry
\* awaits the test in progress or starts one (for a chain with whitelisted
\* urls).
C31_TtlFreshness ==
  [][\A p \in Callers :
       /\ (pc[p] = "getFastestRpc" /\ pc'[p] = "check") =>
            fastest'[p] =
              IF HasEntry(ChainOf(p)) /\ EntryFresh(ChainOf(p))
              THEN StoredEntry(ChainOf(p)).fastestRpc ELSE Null
       /\ (/\ pc[p] = "check" /\ pc'[p] # "check"
           /\ ~IsNull(FreshReadSaw(p)) /\ AgeSeen(p) >= CacheTtlMs
           /\ Whitelisted(ChainOf(p))) =>
            \/ pc'[p] = "awaitShared" /\ ongoing[ChainOf(p)] # 0
                 /\ testPromise'[p] = ongoing[ChainOf(p)]
            \/ pc'[p] = "awaitOwn" /\ Len(probes') = Len(probes) + 1
                 /\ testPromise'[p] = Len(probes')]_vars

\* an entry with a usable fastestRpc, read at the age of exactly the TTL
C31_Witness ==
  /\ pc[1] = "check" /\ fastest[1] = Null
  /\ ~IsNull(FreshReadSaw(1)) /\ AgeSeen(1) = CacheTtlMs
  /\ Val(FreshReadSaw(1)).fastestRpc = Some("A")
  /\ CacheValid(latencyMap[1], Val(FreshReadSaw(1)).fastestRpc)

\* C32: with caching disabled the raw and the fresh read of every call are
\* misses, the cache stays empty and the KV as it was: no step reads or
\* writes the KV and updateChainCache stores nothing; the call for a chain
\* with whitelisted urls still starts a test and returns the ranking of its
\* results.
C32_DisabledMode ==
  /\ [](disabled =>
          /\ cache = EmptyRoot
          /\ \A p \in Callers :
               /\ pc[p] \notin {"kvGet", "loaded", "getFastestRpc", "update", "kvSet"}
               /\ pc[p] = "check" => IsNull(latencyMap[p]) /\ IsNull(fastest[p]))
  /\ [][disabled =>
          /\ kvStore' = kvStore
          /\ cache' = cache
          /\ \A p \in Callers :
               /\ (pc[p] = "check" /\ pc'[p] # "check" /\ Whitelisted(ChainOf(p))) =>
                    /\ pc'[p] = "awaitOwn"
                    /\ probes' = Append(probes, NewProbe(ChainOf(p),
                                    getRpcUrls(ChainOf(p)), call[p].burst))
               /\ (pc[p] = "awaitOwn" /\ pc'[p] # "awaitOwn") => pc'[p] = "finally"
               /\ (pc[p] = "finally" /\ pc'[p] # "finally") =>
                    /\ pc'[p] = "ranked"
                    /\ rankedList'[p] =
                         rankResults(Some(probes[testPromise[p]].result))]_vars

\* the KV holds a fresh entry of chain 1 that a call could use, and the
\* call has ranked the results of its own test
C32_Witness ==
  /\ disabled /\ now = 0 /\ pc[1] = "ranked" /\ ChainOf(1) = 1
  /\ ~IsNull(kvStore) /\ ~IsNull(Val(kvStore)[1])
  /\ Val(Val(kvStore)[1]).fastestRpc = Some("A")
  /\ CacheValid(Some(Val(Val(kvStore)[1]).latencyMap), Some("A"))
  /\ testPromise[1] = 1 /\ probes[1].settled
  /\ rankedList[1] = <<"B", "A">>

\* the test that caller p awaits has ended with a map that has every url of
\* the chain, each with a hard failure
AllHardFailed(p) ==
  LET j == testPromise[p]
  IN /\ j # 0 /\ probes[j].settled /\ ~probes[j].failed
     /\ \A i \in 1..Len(probes[j].urls) : MapHas(probes[j].result, probes[j].urls[i])
     /\ \A i \in 1..Len(probes[j].result) :
          probes[j].result[i].status \in HardFailures

\* the entry of a test without a usable url, stored at the time dateNow
AllFailedEntryOf(p, dateNow) ==
  Some([fastestRpc |-> Null, latencyMap |-> probes[testPromise[p]].result,
        lastTested |-> dateNow])

\* C33: when the test of a chain ended with a hard failure for every
\* whitelisted url, the caller that ran it stores the entry of the chain
\* all the same, in the cache and in the KV, with the whole map, fastestRpc
\* = null and lastTested = now, and every caller of the test gets [].
C33_AllFailedStillWritten ==
  [][\A p \in Callers : AllHardFailed(p) =>
       /\ (pc[p] = "awaitOwn" /\ pc'[p] # "awaitOwn") => pc'[p] = "update"
       /\ (pc[p] = "update" /\ pc'[p] # "update") =>
            /\ pc'[p] = "kvSet"
            /\ cache'[ChainOf(p)] = AllFailedEntryOf(p, now)
       /\ (pc[p] = "kvSet" /\ pc'[p] # "kvSet") =>
            /\ ~IsNull(kvStore')
            /\ Val(kvStore')[ChainOf(p)] = AllFailedEntryOf(p, now)
       /\ (pc[p] \in {"finally", "awaitShared"} /\ pc'[p] # pc[p]) =>
            /\ pc'[p] = "ranked"
            /\ rankedList'[p] = <<>>]_vars

\* both urls of chain 1 timed out at time 1: the entry is in the cache and
\* in the KV, and the caller has the empty list
C33_Witness ==
  /\ pc[1] = "ranked" /\ AllHardFailed(1) /\ now = 1 /\ rankedList[1] = <<>>
  /\ Len(probes[testPromise[1]].result) = 2
  /\ cache[1] = AllFailedEntryOf(1, 1)
  /\ kvStore = Some(cache)
  /\ \E s \in probes[testPromise[1]].served : s.caller = 1 /\ s.role = "own"

\* both calls of the last test returned a parsed body
BothJson ==
  /\ singleRpc.kind = "fulfilled"
  /\ singleRpc.getCode.kind = "json" /\ singleRpc.syncing.kind = "json"

\* C35: when both calls returned a 2xx JSON body the first rule that
\* matches gives the status: an error object in either body, rpc_error;
\* else an eth_syncing result other than false, syncing, whatever the
\* bytecode is; else an eth_getCode result that is no string or lacks the
\* Permit2 prefix, wrong_bytecode; else ok.
C35_JsonClassification ==
  BothJson =>
    LET g == singleRpc.getCode.body
        y == singleRpc.syncing.body
        status == singleRpc.result.status
    IN /\ (g = "error" \/ y = "error") => status = "rpc_error"
       /\ (g # "error" /\ y = "not_false") => status = "syncing"
       /\ (y = "false" /\ g \in {"other_code", "no_string"}) =>
            status = "wrong_bytecode"
       /\ (y = "false" /\ g = "permit2") => status = "ok"

\* a node that is syncing and has other code at the Permit2 address
C35_Witness ==
  /\ BothJson
  /\ singleRpc.getCode.body = "other_code"
  /\ singleRpc.syncing.body = "not_false"
  /\ singleRpc.result.status = "syncing"

\* the last place of a url in the list of the run
LastIndexOf(urls, url) ==
  CHOOSE i \in 1..Len(urls) :
    urls[i] = url /\ \A k \in (i + 1)..Len(urls) : urls[k] # url

\* the status that testSingleRpc gives for the two calls of a task, and
\* testRpcUrls for a task that threw: a function of that task alone
OwnStatus(task) ==
  IF task.kind = "rejected" THEN "network_error"
  ELSE testSingleRpc(task.getCode, task.syncing, task.first).status

\* C36: the map that a run of testRpcUrls returns has exactly one entry for
\* every distinct url of its list; the run returns only when the test of
\* every url has settled, whatever failed before; and the status of a url
\* is the one its own two calls give (those of its last test when the list
\* has it twice), whatever the tests of the other urls did.
C36_ProbeIsolation ==
  probeRun.state = "done" =>
    /\ \A i \in 1..Len(probeRun.urls) : ~IsNull(probeRun.tasks[i])
    /\ {probeRun.map[k].url : k \in 1..Len(probeRun.map)} = Range(probeRun.urls)
    /\ Len(probeRun.map) = Cardinality(Range(probeRun.urls))
    /\ \A url \in Range(probeRun.urls) :
         MapGet(probeRun.map, url).status =
           OwnStatus(Val(probeRun.tasks[LastIndexOf(probeRun.urls, url)]))

\* a list with A twice: the test of B threw, the first test of A timed
\* out, the last test of A was fine
C36_Witness ==
  /\ probeRun.state = "done" /\ probeRun.urls = <<"A", "B", "A">>
  /\ Val(probeRun.tasks[1]).getCode.kind = "abort"
  /\ Val(probeRun.tasks[2]).kind = "rejected"
  /\ Len(probeRun.map) = 2
  /\ MapGet(probeRun.map, "A").status = "ok"
  /\ MapGet(probeRun.map, "B").status = "network_error"

\* C39: the start index of a send is within 0..n-1 for the list of length
\* n that the send got from getRankedRpcList, also when the stored index
\* comes from a send with a longer or a shorter list; every url a send
\* calls is a url of its list.
C39_StartIndexInRange ==
  /\ \A c \in AllChainIds : \A k \in 1..Len(rrLog[c]) :
       rrLog[c][k].startIndex \in 0..(rrLog[c][k].n - 1)
  /\ \A p \in Callers : InLoop(p) =>
       /\ startIndex[p] \in 0..(Len(rankedList[p]) - 1)
       /\ \A k \in 1..Len(attempts[p]) :
            attempts[p][k].url \in Range(rankedList[p])

\* the first send had a list of two urls and left the index 1; the list
\* of the second, after a new test, has one url
C39_Witness ==
  /\ Len(rrLog[1]) = 2
  /\ rrLog[1][1].n = 2 /\ rrLog[1][2].n = 1
  /\ rrLog[1][2].currentIndex = 1 /\ rrLog[1][2].startIndex = 0
  /\ \E p \in Callers : pc[p] = "done" /\ Len(rankedList[p]) = 1
                         /\ Len(attempts[p]) = 1

\* C34: a failure of the KV reaches no caller.  When kv.get fails the
\* cache is the empty root: the two reads of the call are misses and the
\* call starts a test (for a chain with whitelisted urls).  When kv.set
\* fails the KV is as it was, updateChainCache throws nothing, the entry
\* stays in the cache, and the caller gets the ranking of the results of
\* its test.  No call ends with an error of the KV.
C34_KvFailuresContained ==
  /\ [](\A p \in Callers :
          /\ outcome[p].type \in {"none", "result", "AllFailed", "NoEndpoints"}
          /\ ("get" \in kvErrors[p] /\ pc[p] = "check") =>
               IsNull(latencyMap[p]) /\ IsNull(fastest[p])
          /\ (kvErrors[p] # {} /\ HasList(p) /\ Whitelisted(ChainOf(p))) =>
               /\ testPromise[p] # 0
               /\ rankedList[p] = rankResults(Some(probes[testPromise[p]].result)))
  /\ [][\A p \in Callers :
          /\ (pc[p] = "kvGet" /\ "get" \in kvErrors'[p]) =>
               /\ cache' = EmptyRoot /\ kvStore' = kvStore
               /\ pc'[p] = "getLatencyMap"
          /\ ("get" \in kvErrors[p] /\ pc[p] = "check" /\ pc'[p] # "check"
              /\ Whitelisted(ChainOf(p))) =>
               pc'[p] = "awaitOwn" /\ Len(probes') = Len(probes) + 1
          /\ (pc[p] = "kvSet" /\ "set" \in kvErrors'[p]) =>
               /\ kvStore' = kvStore /\ cache' = cache
               /\ pc'[p] = "finally" /\ latencyMap'[p] = latencyMap[p]]_vars

\* the KV holds a usable entry of chain 1; the read and then the write of
\* the call failed, and the call returned a result from the url that its
\* own test ranked first
C34_Witness ==
  /\ kvErrors[1] = {"get", "set"} /\ pc[1] = "done" /\ ChainOf(1) = 1
  /\ outcome[1].type = "result"
  /\ rankedList[1] = <<"B", "A">> /\ attempts[1][1].url = "B"
  /\ ~IsNull(kvStore) /\ kvStore # Some(cache)
  /\ Val(Val(kvStore)[1]).fastestRpc = Some("A")
  /\ Val(cache[1]).fastestRpc = Some("B")

\* the chains other than the one the call of p is for
OtherChains(p) == AllChainIds \ {ChainOf(p)}

\* C38: an updateChainCache for one chain leaves the entries of all other
\* chains as they are, in this.cache and in the root stored in the KV,
\* however the updates and the first loads of calls for different chains
\* interleave: the root it writes has every entry of another chain that the
\* KV held, as it was or as a later update of that chain left it in the
\* cache.
C38_PutLeavesOtherChains ==
  [][\A p \in Callers :
       /\ (pc[p] = "update" /\ pc'[p] = "kvSet") =>
            \A c \in OtherChains(p) : cache'[c] = cache[c]
       /\ (pc[p] = "kvSet" /\ pc'[p] = "finally" /\ ~IsNull(kvStore)) =>
            \A c \in OtherChains(p) :
              ~IsNull(Val(kvStore)[c]) =>
                /\ ~IsNull(Val(kvStore')[c])
                /\ Val(kvStore')[c] \in {Val(kvStore)[c], cache[c]}]_vars

\* the urls that the selector called by p may return for the chain: those
\* of its data source and those of the entry of its cache
OwnUrls(p) ==
  Range(getRpcUrlsFrom(SelectorWhitelist(p), ChainOf(p)))
    \cup (IF HasEntry(ChainOf(p))
          THEN {StoredEntry(ChainOf(p)).latencyMap[i].url :
                  i \in 1..Len(StoredEntry(ChainOf(p)).latencyMap)}
          ELSE {})

\* C40: the list that getRankedRpcList of a selector returns has only urls
\* of the whitelist of that selector for the chain, or of its cache entry,
\* also when two managers with different whitelists are asked for the same
\* chain while a test is in progress.
C40_OwnWhitelistOnly ==
  \A p \in Callers : pc[p] = "ranked" => Range(rankedList[p]) \subseteq OwnUrls(p)

\* the caller awaits the promise of a test
Waiting(p) == pc[p] \in {"awaitShared", "awaitOwn"}

====
